---- MODULE Spec2Model ----
(***************************************************************************)
(* A model of the SMMUv3 driver: the Command Queue (src/src/queue.rs), the *)
(* linear Stream Table (src/src/stream_table.rs) and the driver's bring-up *)
(* and command submission (src/src/lib.rs), running against the SMMU       *)
(* hardware as a concurrent peer that acknowledges CR0 and consumes the    *)
(* Command Queue.                                                          *)
(*                                                                         *)
(* 32-bit registers and indices are naturals.  64-bit words (commands,     *)
(* STEs, 64-bit registers, addresses) are sets of bit positions in 0..63,  *)
(* so that shifts and ors are computed bit by bit without overflow.        *)
(***************************************************************************)
EXTENDS Integers, Sequences, FiniteSets, TLC

\* ------------------------------------------------------------------ bounds
\* Largest log2 queue size explored by the queue-level specification.
MaxQ == 3
\* Largest log2 queue size (CMDQ_EVENTQ_BITS_SET) the driver is configured with.
MaxDrvQ == 1
\* Largest StreamID width (SID_BITS_SET) the model configures.
MaxS == 1
\* Number of cmd_insert calls explored by the queue-level specification.
MaxInserts == 17
\* Number of add_device calls explored after init().
MaxDevCalls == 1
\* Iterations of the CR0ACK polling loops (ARM_SMMU_SYNC_TIMEOUT scaled down).
SyncTimeout == 2

\* ------------------------------------------------------------- arithmetic
RECURSIVE Pow2(_)
Pow2(n) == IF n = 0 THEN 1 ELSE 2 * Pow2(n - 1)

\* a & b on naturals.
RECURSIVE BitAnd(_, _)
BitAnd(a, b) ==
    IF a = 0 \/ b = 0 THEN 0
    ELSE (IF a % 2 = 1 /\ b % 2 = 1 THEN 1 ELSE 0) + 2 * BitAnd(a \div 2, b \div 2)

\* a | b on naturals.
RECURSIVE BitOr(_, _)
BitOr(a, b) ==
    IF a = 0 THEN b
    ELSE IF b = 0 THEN a
    ELSE (IF a % 2 = 1 \/ b % 2 = 1 THEN 1 ELSE 0) + 2 * BitOr(a \div 2, b \div 2)

\* a & !m on naturals (the u32 complement never materialises).
RECURSIVE AndNot(_, _)
AndNot(a, m) ==
    IF a = 0 THEN 0
    ELSE (IF a % 2 = 1 /\ m % 2 = 0 THEN 1 ELSE 0) + 2 * AndNot(a \div 2, m \div 2)

\* The set of bit positions set in the natural n.
RECURSIVE BitsFrom(_, _)
BitsFrom(n, pos) ==
    IF n = 0 THEN {}
    ELSE (IF n % 2 = 1 THEN {pos} ELSE {}) \cup BitsFrom(n \div 2, pos + 1)

Bits(n) == BitsFrom(n, 0)

\* w << s on a 64-bit word.
Shl(w, s) == {b + s : b \in {x \in w : x + s <= 63}}

\* tock-registers FIELD.val(x): (x & mask) << shift, for a field of `numbits` bits.
FieldVal(w, shift, numbits) == Shl({b \in w : b < numbits}, shift)

\* ------------------------------------------------------------ queue.rs: Cmd
CMD_CFGI_STE == 3
CMD_SYNC == 70
CMD_PREFETCH_CONFIG == 1
CMD_CFGI_STE_SID_OFFSET == 32
CMDQ_CFGI_1_LEAF == 1
MAX_CMD_EVENT_QS == 19

\* A CFGI_STE encoder that puts the StreamID at bit 24.
cmd_cfgi_ste_sid_at_24(stream_id) ==
    << Bits(CMD_CFGI_STE) \cup Shl(stream_id, 24), Bits(CMDQ_CFGI_1_LEAF) >>

\* Cmd::cmd_cfgi_ste(stream_id: u32); the u32 is the set of its bits, a subset of
\* 0..31, and `stream_id as u64` extends it with zeros.
cmd_cfgi_ste(stream_id) ==
    << Bits(CMD_CFGI_STE) \cup Shl(stream_id, CMD_CFGI_STE_SID_OFFSET),
       Bits(CMDQ_CFGI_1_LEAF) >>

cmd_sync == << Bits(CMD_SYNC), {} >>

\* Cmd::cmd_prefetch_config is called by lib.rs but its body is not in queue.rs.
cmd_prefetch_config(stream_id) ==
    << Bits(CMD_PREFETCH_CONFIG) \cup Shl(Bits(stream_id), CMD_CFGI_STE_SID_OFFSET),
       {} >>

\* Opcode, bits [7:0] of word 0.
cmd_opcode(cmd) == {b \in cmd[1] : b < 8}

\* StreamID operand, bits [63:32] of word 0.
cmd_sid(cmd) == {b - CMD_CFGI_STE_SID_OFFSET : b \in {x \in cmd[1] : x >= 32}}

\* ---------------------------------------------------------- queue.rs: Queue
Min(a, b) == IF a < b THEN a ELSE b

\* Queue::uninit
QueueUninit == [base |-> 0, queue_size |-> 0, qs |-> 0, prod |-> 0, cons |-> 0]

prod_value(q) == q.prod
cons_value(q) == q.cons

prod_wr_wrap(q) == BitAnd(q.prod, Pow2(q.qs)) # 0
cons_rd_wrap(q) == BitAnd(q.cons, Pow2(q.qs)) # 0
prod_wr(q) == BitAnd(q.prod, q.queue_size - 1)
cons_rd(q) == BitAnd(q.cons, q.queue_size - 1)

\* A set_cons_value that drops the value it is given.
set_cons_value_dropped(q, cons) == q

\* Queue::set_cons_value: the value is stored as read; nothing is masked.
set_cons_value(q, cons) == [q EXCEPT !.cons = cons]

\* The condition under which set_cons_value logs "Invalid cons value".
cons_warned(q, cons) == AndNot(cons, Pow2(q.qs) - 1) # 0

\* An increment that toggles the wrap bit but leaves the index unreduced.
inc_wq_nomod(q) == prod_wr(q) + 1

\* The index computed by inc_proc_wq before it is packed with the wrap bit.
inc_wq(q) ==
    LET wq == prod_wr(q) + 1
    IN IF BitAnd(wq, q.queue_size - 1) = 0 THEN wq % q.queue_size ELSE wq

inc_wrap(q) ==
    LET wq == prod_wr(q) + 1
    IN IF BitAnd(wq, q.queue_size - 1) = 0 THEN ~prod_wr_wrap(q) ELSE prod_wr_wrap(q)

\* assert!(current_proc_wq & !((1 << self.qs) - 1) == 0)
inc_assert_ok(q) == AndNot(inc_wq(q), Pow2(q.qs) - 1) = 0

\* A producer increment that forgets to toggle the wrap bit.
inc_proc_wq_nowrap(q) ==
    [q EXCEPT !.prod = BitOr(IF prod_wr_wrap(q) THEN Pow2(q.qs) ELSE 0, inc_wq(q))]

\* Queue::inc_proc_wq
inc_proc_wq(q) ==
    [q EXCEPT !.prod = BitOr(IF inc_wrap(q) THEN Pow2(q.qs) ELSE 0, inc_wq(q))]

\* A full() that compares the indices only.
full_nowrap(q) == prod_wr(q) = cons_rd(q)

\* Queue::full
full(q) == prod_wr(q) = cons_rd(q) /\ prod_wr_wrap(q) # cons_rd_wrap(q)

\* An empty() that compares the indices only.
empty_nowrap(q) == prod_wr(q) = cons_rd(q)

\* Queue::empty
empty(q) == prod_wr(q) = cons_rd(q) /\ prod_wr_wrap(q) = cons_rd_wrap(q)

\* Queue::init, given the address the platform returned for the region.
queue_init(q, qs, base) ==
    [q EXCEPT !.qs = Min(qs, MAX_CMD_EVENT_QS),
              !.queue_size = Pow2(Min(qs, MAX_CMD_EVENT_QS)),
              !.base = base]

PAGE_SIZE_4K == 4096
CMD_SIZE == 16

align_up_4k(n) == ((n + PAGE_SIZE_4K - 1) \div PAGE_SIZE_4K) * PAGE_SIZE_4K

\* The number of pages Queue::init asks the platform for.
queue_num_pages(qs) ==
    align_up_4k(Pow2(Min(qs, MAX_CMD_EVENT_QS)) * CMD_SIZE) \div PAGE_SIZE_4K

\* Queue::cmd_insert on the queue region: the slot written and the new producer.
cmd_insert_mem(q, mem, cmd) == [mem EXCEPT ![prod_wr(q)] = cmd]

\* The all-zero command, Cmd::default().
NoCmd == << {}, {} >>

\* ------------------------------------------------------- stream_table.rs
STRTAB_STE_DWORDS == 8
STRTAB_STE_SIZE == 64
STRTAB_STE_0_V == {0}
STRTAB_STE_0_CFG_S1_BYPASS_S2_BYPASS == Shl(Bits(4), 1)
\* A stage-2 Config that encodes bypass.
STRTAB_STE_0_CFG_S2_TRANS_as_bypass == Shl(Bits(4), 1)
STRTAB_STE_0_CFG_S1_BYPASS_S2_TRANS == Shl(Bits(6), 1)
STRTAB_STE_1_SHCFG_INCOMING == Shl(Bits(1), 44)
STRTAB_STE_2_S2VMID_OFFSET == 0
STRTAB_STE_2_S2T0SZ_OFFSET == 32
STRTAB_STE_2_S2VTCR_LEN == 19
STRTAB_STE_2_S2AA64 == {51}
STRTAB_STE_2_S2PTW == {54}
STRTAB_STE_2_S2R == {58}
STRTAB_STE_3_S2TTB_OFF == 4
STRTAB_STE_3_S2TTB_LEN == 48

\* The VTCR_EL2 fields DEFAULT_S2VTCR names, as <<shift, numbits>>:
\* PS [18:16], TG0 [15:14], SH0 [13:12], ORGN0 [11:10], IRGN0 [9:8], SL0 [7:6],
\* T0SZ [5:0].
VTCR_EL2_FIELDS == { <<16, 3>>, <<14, 2>>, <<12, 2>>, <<10, 2>>, <<8, 2>>, <<6, 2>>, <<0, 6>> }

\* FieldValue::mask(): the mask of the field in place, whatever value it holds.
FieldMask(f) == { f[1] + i : i \in 0..(f[2] - 1) }

DEFAULT_S2VTCR == UNION { FieldMask(f) : f \in VTCR_EL2_FIELDS }

\* (value >> start) & ((1 << length) - 1)
extract_bits(value, start, length) ==
    { b - start : b \in { x \in value : x >= start /\ x < start + length } }

\* A bypass template without the valid bit.
bypass_entry_invalid ==
    << STRTAB_STE_0_CFG_S1_BYPASS_S2_BYPASS, STRTAB_STE_1_SHCFG_INCOMING, {}, {}, {}, {}, {}, {} >>

bypass_entry ==
    << STRTAB_STE_0_V \cup STRTAB_STE_0_CFG_S1_BYPASS_S2_BYPASS,
       STRTAB_STE_1_SHCFG_INCOMING, {}, {}, {}, {}, {}, {} >>

\* A stage-2 template that puts the VMID one halfword up.
s2_translated_entry_vmid_shifted(vmid, s2pt_base) ==
    << STRTAB_STE_0_V \cup STRTAB_STE_0_CFG_S1_BYPASS_S2_TRANS,
       STRTAB_STE_1_SHCFG_INCOMING,
       Shl(vmid, 16) \cup STRTAB_STE_2_S2AA64 \cup STRTAB_STE_2_S2PTW \cup STRTAB_STE_2_S2R,
       Shl(extract_bits(s2pt_base, STRTAB_STE_3_S2TTB_OFF, STRTAB_STE_3_S2TTB_LEN),
           STRTAB_STE_3_S2TTB_OFF),
       {}, {}, {}, {} >>

s2_translated_entry(vmid, s2pt_base) ==
    << STRTAB_STE_0_V \cup STRTAB_STE_0_CFG_S1_BYPASS_S2_TRANS,
       STRTAB_STE_1_SHCFG_INCOMING,
       Shl(vmid, STRTAB_STE_2_S2VMID_OFFSET)
           \cup Shl(extract_bits(DEFAULT_S2VTCR, 0, STRTAB_STE_2_S2VTCR_LEN),
                    STRTAB_STE_2_S2T0SZ_OFFSET)
           \cup STRTAB_STE_2_S2AA64 \cup STRTAB_STE_2_S2PTW \cup STRTAB_STE_2_S2R,
       Shl(extract_bits(s2pt_base, STRTAB_STE_3_S2TTB_OFF, STRTAB_STE_3_S2TTB_LEN),
           STRTAB_STE_3_S2TTB_OFF),
       {}, {}, {}, {} >>

\* LinearStreamTable::uninit
StreamTableUninit == [base |-> 0, entry_count |-> 0]

\* The number of pages LinearStreamTable::init asks the platform for.
strtab_num_pages(sid_bits) == (Pow2(sid_bits) * STRTAB_STE_SIZE) \div PAGE_SIZE_4K

\* ------------------------------------------------------------------ state
VARIABLES
    hal,          \* the platform: SID_BITS_SET, CMDQ_EVENTQ_BITS_SET, phys_to_virt offset
    free_page,    \* the platform allocator: the next physical address it hands out
    idr,          \* the read-only ID registers: IDR1.SIDSIZE, IDR0.ST_LEVEL
    regs,         \* the SMMU registers the driver and the hardware share
    cmd_queue,    \* SMMUv3::cmd_queue
    event_queue,  \* SMMUv3::event_queue
    stream_table, \* SMMUv3::stream_table
    cmdq_mem,     \* the Command Queue region: slot index -> command
    strtab_mem,   \* the Stream Table region: StreamID -> STE
    pc,           \* the driver's position
    stack,        \* the add_cmd frames: return position, cmd, sync
    sid,          \* the StreamID of the loop or call in progress
    timeout,      \* the iteration count of the polling loop in progress
    devcalls,     \* add_device calls completed
    pending,      \* history: slots written by cmd_insert and not yet consumed
    k,            \* history: number of cmd_insert calls
    log           \* history: MMIO writes, STE writes, flushes, inserts, consumptions

vars == << hal, free_page, idr, regs, cmd_queue, event_queue, stream_table, cmdq_mem, strtab_mem,
           pc, stack, sid, timeout, devcalls, pending, k, log >>

\* ------------------------------------------------------- register fields
CR0_SMMUEN == 0
CR0_EVENTQEN == 2
CR0_CMDQEN == 3
CMDQ_CONS_ERR_SHIFT == 24
CMDQ_RD_BITS == 20

\* REG.is_set(FIELD) for a one-bit field at bit b.
is_set(v, b) == (v \div Pow2(b)) % 2 = 1

\* v with bit b set to the value of bit b of w.
CopyBit(v, w, b) ==
    IF is_set(v, b) = is_set(w, b) THEN v
    ELSE IF is_set(w, b) THEN v + Pow2(b) ELSE v - Pow2(b)

\* cmdq_cons & (CMDQ_CONS::RD.mask << CMDQ_CONS::RD.shift)
cons_rd_field(cmdq_cons) == BitAnd(cmdq_cons, Pow2(CMDQ_RD_BITS) - 1)

\* cmdq_cons & (CMDQ_CONS::ERR.mask << CMDQ_CONS::ERR.shift)
cons_err_field(cmdq_cons) == BitAnd(cmdq_cons, 127 * Pow2(CMDQ_CONS_ERR_SHIFT))

\* The value of the low `n` bits of a 64-bit word.
RECURSIVE LowVal(_, _)
LowVal(w, n) == IF n = 0 THEN 0 ELSE LowVal(w, n - 1) + (IF (n - 1) \in w THEN Pow2(n - 1) ELSE 0)

\* CMDQ_BASE::RA::ReadAllocate + ADDR.val(base >> 5) + LOG2SIZE.val(log2)
cmdq_base_value(base, log2) ==
    {62} \cup FieldVal(extract_bits(Bits(base), 5, 59), 5, 51) \cup FieldVal(Bits(log2), 0, 5)

\* STRTAB_BASE::RA::Enable + ADDR.val(base >> 6)
strtab_base_value(base) == {62} \cup FieldVal(extract_bits(Bits(base), 6, 58), 6, 50)

\* STRTAB_BASE_CFG::FMT::Linear + LOG2SIZE.val(sid_bits)
strtab_base_cfg_value(sid_bits) == sid_bits % 64

\* CR1: TABLE_SH=Inner (3<<10), TABLE_OC=WB (1<<8), TABLE_IC=WB (1<<6),
\* QUEUE_SH=Inner (3<<4), QUEUE_OC=WB (1<<2), QUEUE_IC=WB (1<<0).
cr1_value == 3 * 1024 + 256 + 64 + 3 * 16 + 4 + 1

\* CR2::VALID::defaul
cr2_value == 7

\* A first enable that also sets SMMUEN.
cr0_cmdqen_value_smmuen == Pow2(CR0_CMDQEN) + Pow2(CR0_SMMUEN)

\* CR0::CMDQEN::Enable
cr0_cmdqen_value == Pow2(CR0_CMDQEN)

\* CR0::SMMUEN::Enable + CR0::CMDQEN::Enable + CR0::EVENTQEN::Enable
cr0_enable_value == Pow2(CR0_SMMUEN) + Pow2(CR0_CMDQEN) + Pow2(CR0_EVENTQEN)

\* ------------------------------------------------------------ the platform
\* Option<PhysAddr>: the empty set is None, {a} is Some(a).
None == {}
Some(a) == {a}
Unwrap(r) == CHOOSE a \in r : TRUE

\* The first physical address the platform hands out: 4 KiB-aligned.
PoolBase == 3 * PAGE_SIZE_4K

\* H::alloc_pages(num_pages): the next free pages of the pool, or no pages.
alloc_pages(num_pages) == { Some(free_page), None }

\* The pool after alloc_pages(num_pages) returned r.
pool_after(r, num_pages) == IF r = None THEN free_page ELSE free_page + num_pages * PAGE_SIZE_4K

\* H::phys_to_virt
phys_to_virt(paddr) == paddr + hal.virt_offset

\* The StreamID widths, queue sizes and address maps a platform may configure.
Platforms ==
    [ SID_BITS_SET : 0..MaxS, CMDQ_EVENTQ_BITS_SET : 0..MaxDrvQ, virt_offset : {0, 16 * PAGE_SIZE_4K} ]

\* IDR1.SIDSIZE and IDR0.ST_LEVEL values on both sides of the capability check.
IdrValues == [ SIDSIZE : {6, 7}, ST_LEVEL : {0, 1} ]

\* The reset values of EVENTQ_PROD and EVENTQ_CONS are UNKNOWN.
EventqResetValues == {0, 1}

\* The inputs of add_device.
Vmids == { Bits(66) }
S2ptBases == { {47} }

\* The error codes the hardware may show in CMDQ_CONS.ERR.
ErrCodes == {0, 5}

\* ------------------------------------------------------------------- Init
ResetRegs(ep, ec) ==
    [ CR0 |-> 0, CR0ACK |-> 0, CR1 |-> 0, CR2 |-> 0,
      STRTAB_BASE |-> {}, STRTAB_BASE_CFG |-> 0,
      CMDQ_BASE |-> {}, CMDQ_PROD |-> 0, CMDQ_CONS |-> 0,
      EVENTQ_BASE |-> {}, EVENTQ_PROD |-> ep, EVENTQ_CONS |-> ec ]

\* SMMUv3::new
Init ==
    /\ hal \in Platforms
    /\ free_page = PoolBase
    /\ idr \in IdrValues
    /\ \E ep \in EventqResetValues, ec \in EventqResetValues : regs = ResetRegs(ep, ec)
    /\ cmd_queue = QueueUninit
    /\ event_queue = QueueUninit
    /\ stream_table = StreamTableUninit
    /\ cmdq_mem = << >>
    /\ strtab_mem = << >>
    /\ pc = "init"
    /\ stack = << >>
    /\ sid = 0
    /\ timeout = 0
    /\ devcalls = 0
    /\ pending = {}
    /\ k = 0
    /\ log = << >>

\* ------------------------------------------------------------ history log
MmioWrite(reg, val) == [ev |-> "w", reg |-> reg, val |-> val, cr0 |-> regs.CR0]
SteWrite(s, val) == [ev |-> "ste", sid |-> s, val |-> val]
Flush(start, len) == [ev |-> "flush", start |-> start, len |-> len]
Inserted(idx, cmd) == [ev |-> "insert", idx |-> idx, cmd |-> cmd]
Consumed(idx, cmd) == [ev |-> "consume", idx |-> idx, cmd |-> cmd]

\* self.regs().REG.write(val)
WriteReg(reg, val) ==
    /\ regs' = [regs EXCEPT ![reg] = val]
    /\ log' = Append(log, MmioWrite(reg, val))

Top == stack[Len(stack)]

\* Entering add_cmd(cmd, sync), to resume at `ret` when it returns.
Frame(ret, cmd, sync) == [ret |-> ret, cmd |-> cmd, sync |-> sync, mark |-> Len(log)]

\* ------------------------------------------------------ lib.rs: init()
\* An init() without the capability check.
Probe_nocheck ==
    /\ pc = "init"
    /\ pc' = "cmdq_init"
    /\ UNCHANGED << hal, free_page, idr, regs, cmd_queue, event_queue, stream_table, cmdq_mem,
                    strtab_mem, stack, sid, timeout, devcalls, pending, k, log >>

\* init(), lines 100-108: the capability check.
Probe ==
    /\ pc = "init"
    /\ pc' = IF idr.SIDSIZE >= 7 /\ idr.ST_LEVEL = 0 THEN "panic" ELSE "cmdq_init"
    /\ UNCHANGED << hal, free_page, idr, regs, cmd_queue, event_queue, stream_table, cmdq_mem,
                    strtab_mem, stack, sid, timeout, devcalls, pending, k, log >>

\* A Queue::init that carries on with the uninitialised base when no pages are returned.
CmdqInit_nofail ==
    /\ pc = "cmdq_init"
    /\ \E r \in alloc_pages(queue_num_pages(hal.CMDQ_EVENTQ_BITS_SET)) :
        /\ free_page' = pool_after(r, queue_num_pages(hal.CMDQ_EVENTQ_BITS_SET))
        /\ cmd_queue' = queue_init(cmd_queue, hal.CMDQ_EVENTQ_BITS_SET,
                                   IF r = None THEN QueueUninit.base ELSE phys_to_virt(Unwrap(r)))
        /\ cmdq_mem' = [i \in 0..(Pow2(Min(hal.CMDQ_EVENTQ_BITS_SET, MAX_CMD_EVENT_QS)) - 1) |-> NoCmd]
        /\ pc' = "w_cmdq_base"
    /\ UNCHANGED << hal, idr, regs, event_queue, stream_table, strtab_mem, stack, sid,
                    timeout, devcalls, pending, k, log >>

\* self.cmd_queue.init(cmdqs_log2)
CmdqInit ==
    /\ pc = "cmdq_init"
    /\ \E r \in alloc_pages(queue_num_pages(hal.CMDQ_EVENTQ_BITS_SET)) :
        /\ free_page' = pool_after(r, queue_num_pages(hal.CMDQ_EVENTQ_BITS_SET))
        /\ IF r = None
           THEN /\ pc' = "panic"
                /\ UNCHANGED << cmd_queue, cmdq_mem >>
           ELSE /\ cmd_queue' = queue_init(cmd_queue, hal.CMDQ_EVENTQ_BITS_SET, phys_to_virt(Unwrap(r)))
                /\ cmdq_mem' = [i \in 0..(Pow2(Min(hal.CMDQ_EVENTQ_BITS_SET, MAX_CMD_EVENT_QS)) - 1) |-> NoCmd]
                /\ pc' = "w_cmdq_base"
    /\ UNCHANGED << hal, idr, regs, event_queue, stream_table, strtab_mem, stack, sid,
                    timeout, devcalls, pending, k, log >>

WriteCmdqBase ==
    /\ pc = "w_cmdq_base"
    /\ WriteReg("CMDQ_BASE", cmdq_base_value(cmd_queue.base, hal.CMDQ_EVENTQ_BITS_SET))
    /\ pc' = "w_cmdq_prod"
    /\ UNCHANGED << hal, free_page, idr, cmd_queue, event_queue, stream_table, cmdq_mem, strtab_mem,
                    stack, sid, timeout, devcalls, pending, k >>

WriteCmdqProd ==
    /\ pc = "w_cmdq_prod"
    /\ WriteReg("CMDQ_PROD", prod_value(cmd_queue) % Pow2(CMDQ_RD_BITS))
    /\ pc' = "w_cmdq_cons"
    /\ UNCHANGED << hal, free_page, idr, cmd_queue, event_queue, stream_table, cmdq_mem, strtab_mem,
                    stack, sid, timeout, devcalls, pending, k >>

\* An init() that leaves CMDQ_CONS as the reset left it.
WriteCmdqCons_skipped ==
    /\ pc = "w_cmdq_cons"
    /\ pc' = "w_cr0_cmdqen"
    /\ UNCHANGED << hal, free_page, idr, regs, cmd_queue, event_queue, stream_table, cmdq_mem,
                    strtab_mem, stack, sid, timeout, devcalls, pending, k, log >>

WriteCmdqCons ==
    /\ pc = "w_cmdq_cons"
    /\ WriteReg("CMDQ_CONS", cons_value(cmd_queue) % Pow2(CMDQ_RD_BITS))
    /\ pc' = "w_cr0_cmdqen"
    /\ UNCHANGED << hal, free_page, idr, cmd_queue, event_queue, stream_table, cmdq_mem, strtab_mem,
                    stack, sid, timeout, devcalls, pending, k >>

WriteCr0Cmdqen ==
    /\ pc = "w_cr0_cmdqen"
    /\ WriteReg("CR0", cr0_cmdqen_value)
    /\ timeout' = 0
    /\ pc' = "poll_cmdqen"
    /\ UNCHANGED << hal, free_page, idr, cmd_queue, event_queue, stream_table, cmdq_mem, strtab_mem,
                    stack, sid, devcalls, pending, k >>

\* init(), lines 131-137: the loop ends on the acknowledge or after the last iteration.
PollCmdqen ==
    /\ pc = "poll_cmdqen"
    /\ IF timeout < SyncTimeout /\ ~is_set(regs.CR0ACK, CR0_CMDQEN)
       THEN timeout' = timeout + 1 /\ pc' = pc
       ELSE timeout' = 0 /\ pc' = "strtab_init"
    /\ UNCHANGED << hal, free_page, idr, regs, cmd_queue, event_queue, stream_table, cmdq_mem,
                    strtab_mem, stack, sid, devcalls, pending, k, log >>

\* The STE writes of LinearStreamTable::init's loop, in StreamID order.
BypassWrites(n) == [i \in 1..n |-> SteWrite(i - 1, bypass_entry)]

\* self.stream_table.init(H::SID_BITS_SET)
StrtabInit ==
    /\ pc = "strtab_init"
    /\ \E r \in alloc_pages(strtab_num_pages(hal.SID_BITS_SET)) :
        /\ free_page' = pool_after(r, strtab_num_pages(hal.SID_BITS_SET))
        /\ IF r = None
           THEN /\ pc' = "panic"
                /\ UNCHANGED << stream_table, strtab_mem, log, sid >>
           ELSE /\ stream_table' = [base |-> Unwrap(r), entry_count |-> Pow2(hal.SID_BITS_SET)]
                /\ strtab_mem' = [s \in 0..(Pow2(hal.SID_BITS_SET) - 1) |-> bypass_entry]
                /\ log' = log \o BypassWrites(Pow2(hal.SID_BITS_SET))
                /\ sid' = 0
                /\ pc' = "st_loop"
    /\ UNCHANGED << hal, idr, regs, cmd_queue, event_queue, cmdq_mem, stack, timeout,
                    devcalls, pending, k >>

\* stream_table_init(), lines 194-199: one iteration up to the call of add_cmd.
StLoop ==
    /\ pc = "st_loop"
    /\ IF sid < stream_table.entry_count
       THEN /\ strtab_mem' = [strtab_mem EXCEPT ![sid] = bypass_entry]
            /\ log' = Append(log, SteWrite(sid, bypass_entry))
            /\ stack' = Append(stack, Frame("st_next", cmd_cfgi_ste(Bits(sid)), TRUE))
            /\ pc' = "ac_full"
       ELSE /\ pc' = "st_flush"
            /\ UNCHANGED << strtab_mem, log, stack >>
    /\ UNCHANGED << hal, free_page, idr, regs, cmd_queue, event_queue, stream_table, cmdq_mem, sid,
                    timeout, devcalls, pending, k >>

StNext ==
    /\ pc = "st_next"
    /\ sid' = sid + 1
    /\ pc' = "st_loop"
    /\ UNCHANGED << hal, free_page, idr, regs, cmd_queue, event_queue, stream_table, cmdq_mem,
                    strtab_mem, stack, timeout, devcalls, pending, k, log >>

\* A stream_table_init without its flush.
StFlush_skipped ==
    /\ pc = "st_flush"
    /\ pc' = "w_strtab_base_cfg"
    /\ UNCHANGED << hal, free_page, idr, regs, cmd_queue, event_queue, stream_table, cmdq_mem,
                    strtab_mem, stack, sid, timeout, devcalls, pending, k, log >>

\* H::flush(base, size_of::<StreamTableEntry>() * entry_count)
StFlush ==
    /\ pc = "st_flush"
    /\ log' = Append(log, Flush(stream_table.base, STRTAB_STE_SIZE * stream_table.entry_count))
    /\ pc' = "w_strtab_base_cfg"
    /\ UNCHANGED << hal, free_page, idr, regs, cmd_queue, event_queue, stream_table, cmdq_mem,
                    strtab_mem, stack, sid, timeout, devcalls, pending, k >>

WriteStrtabBaseCfg ==
    /\ pc = "w_strtab_base_cfg"
    /\ WriteReg("STRTAB_BASE_CFG", strtab_base_cfg_value(hal.SID_BITS_SET))
    /\ pc' = "w_strtab_base"
    /\ UNCHANGED << hal, free_page, idr, cmd_queue, event_queue, stream_table, cmdq_mem, strtab_mem,
                    stack, sid, timeout, devcalls, pending, k >>

WriteStrtabBase ==
    /\ pc = "w_strtab_base"
    /\ WriteReg("STRTAB_BASE", strtab_base_value(stream_table.base))
    /\ pc' = "evq_init"
    /\ UNCHANGED << hal, free_page, idr, cmd_queue, event_queue, stream_table, cmdq_mem, strtab_mem,
                    stack, sid, timeout, devcalls, pending, k >>

\* self.event_queue.init(cmdqs_log2)
EventqInit ==
    /\ pc = "evq_init"
    /\ \E r \in alloc_pages(queue_num_pages(hal.CMDQ_EVENTQ_BITS_SET)) :
        /\ free_page' = pool_after(r, queue_num_pages(hal.CMDQ_EVENTQ_BITS_SET))
        /\ IF r = None
           THEN /\ pc' = "panic"
                /\ UNCHANGED event_queue
           ELSE /\ event_queue' = queue_init(event_queue, hal.CMDQ_EVENTQ_BITS_SET, phys_to_virt(Unwrap(r)))
                /\ pc' = "w_evq_base"
    /\ UNCHANGED << hal, idr, regs, cmd_queue, stream_table, cmdq_mem, strtab_mem, stack,
                    sid, timeout, devcalls, pending, k, log >>

WriteEventqBase ==
    /\ pc = "w_evq_base"
    /\ WriteReg("EVENTQ_BASE", cmdq_base_value(event_queue.base, hal.CMDQ_EVENTQ_BITS_SET))
    /\ pc' = "w_evq_prod"
    /\ UNCHANGED << hal, free_page, idr, cmd_queue, event_queue, stream_table, cmdq_mem, strtab_mem,
                    stack, sid, timeout, devcalls, pending, k >>

WriteEventqProd ==
    /\ pc = "w_evq_prod"
    /\ WriteReg("EVENTQ_PROD", prod_value(event_queue) % Pow2(CMDQ_RD_BITS))
    /\ pc' = "w_evq_cons"
    /\ UNCHANGED << hal, free_page, idr, cmd_queue, event_queue, stream_table, cmdq_mem, strtab_mem,
                    stack, sid, timeout, devcalls, pending, k >>

WriteEventqCons ==
    /\ pc = "w_evq_cons"
    /\ WriteReg("EVENTQ_CONS", cons_value(event_queue) % Pow2(CMDQ_RD_BITS))
    /\ pc' = "w_cr1"
    /\ UNCHANGED << hal, free_page, idr, cmd_queue, event_queue, stream_table, cmdq_mem, strtab_mem,
                    stack, sid, timeout, devcalls, pending, k >>

\* ---------------------------------------------------- lib.rs: enable()
WriteCr1 ==
    /\ pc = "w_cr1"
    /\ WriteReg("CR1", cr1_value)
    /\ pc' = "w_cr2"
    /\ UNCHANGED << hal, free_page, idr, cmd_queue, event_queue, stream_table, cmdq_mem, strtab_mem,
                    stack, sid, timeout, devcalls, pending, k >>

WriteCr2 ==
    /\ pc = "w_cr2"
    /\ WriteReg("CR2", cr2_value)
    /\ pc' = "w_cr0_enable"
    /\ UNCHANGED << hal, free_page, idr, cmd_queue, event_queue, stream_table, cmdq_mem, strtab_mem,
                    stack, sid, timeout, devcalls, pending, k >>

WriteCr0Enable ==
    /\ pc = "w_cr0_enable"
    /\ WriteReg("CR0", cr0_enable_value)
    /\ timeout' = 0
    /\ pc' = "poll_enable"
    /\ UNCHANGED << hal, free_page, idr, cmd_queue, event_queue, stream_table, cmdq_mem, strtab_mem,
                    stack, sid, devcalls, pending, k >>

\* enable(), lines 180-189: return on the three acknowledges, or report the timeout.
PollEnable ==
    /\ pc = "poll_enable"
    /\ IF timeout < SyncTimeout
       THEN IF /\ is_set(regs.CR0ACK, CR0_SMMUEN)
               /\ is_set(regs.CR0ACK, CR0_CMDQEN)
               /\ is_set(regs.CR0ACK, CR0_EVENTQEN)
            THEN timeout' = 0 /\ pc' = "ready"
            ELSE timeout' = timeout + 1 /\ pc' = pc
       ELSE timeout' = 0 /\ pc' = "enable_timeout"
    /\ UNCHANGED << hal, free_page, idr, regs, cmd_queue, event_queue, stream_table, cmdq_mem,
                    strtab_mem, stack, sid, devcalls, pending, k, log >>

\* An enable() whose timeout is fatal.
EnableTimeout_fatal ==
    /\ pc = "enable_timeout"
    /\ pc' = "panic"
    /\ UNCHANGED << hal, free_page, idr, regs, cmd_queue, event_queue, stream_table, cmdq_mem,
                    strtab_mem, stack, sid, timeout, devcalls, pending, k, log >>

\* error!("SMMUv3 enabled timeout"); init() then returns all the same.
EnableTimeout ==
    /\ pc = "enable_timeout"
    /\ pc' = "ready"
    /\ UNCHANGED << hal, free_page, idr, regs, cmd_queue, event_queue, stream_table, cmdq_mem,
                    strtab_mem, stack, sid, timeout, devcalls, pending, k, log >>

\* ---------------------------------------------------- lib.rs: add_cmd()
\* add_cmd(), lines 230-242: one evaluation of `while self.cmd_queue.full()`.
AcFull ==
    /\ pc = "ac_full"
    /\ IF full(cmd_queue)
       THEN /\ cmd_queue' = set_cons_value(cmd_queue, cons_rd_field(regs.CMDQ_CONS))
            /\ pc' = pc
       ELSE /\ pc' = "ac_insert"
            /\ UNCHANGED cmd_queue
    /\ UNCHANGED << hal, free_page, idr, regs, event_queue, stream_table, cmdq_mem, strtab_mem, stack,
                    sid, timeout, devcalls, pending, k, log >>

\* self.cmd_queue.cmd_insert(cmd.clone())
AcInsert ==
    /\ pc = "ac_insert"
    /\ cmdq_mem' = cmd_insert_mem(cmd_queue, cmdq_mem, Top.cmd)
    /\ pending' = pending \cup {prod_wr(cmd_queue)}
    /\ k' = k + 1
    /\ log' = Append(log, Inserted(prod_wr(cmd_queue), Top.cmd))
    /\ IF inc_assert_ok(cmd_queue)
       THEN cmd_queue' = inc_proc_wq(cmd_queue) /\ pc' = "ac_prod"
       ELSE UNCHANGED cmd_queue /\ pc' = "panic"
    /\ UNCHANGED << hal, free_page, idr, regs, event_queue, stream_table, strtab_mem, stack, sid,
                    timeout, devcalls >>

\* self.regs().CMDQ_PROD.write(CMDQ_PROD::WR.val(self.cmd_queue.prod_value()))
AcProd ==
    /\ pc = "ac_prod"
    /\ WriteReg("CMDQ_PROD", prod_value(cmd_queue) % Pow2(CMDQ_RD_BITS))
    /\ pc' = "ac_drain"
    /\ UNCHANGED << hal, free_page, idr, cmd_queue, event_queue, stream_table, cmdq_mem, strtab_mem,
                    stack, sid, timeout, devcalls, pending, k >>

\* A drain loop that gives up when CMDQ_CONS.ERR is set.
AcDrain_abort_on_err ==
    /\ pc = "ac_drain"
    /\ IF empty(cmd_queue)
       THEN /\ pc' = "ac_sync"
            /\ UNCHANGED cmd_queue
       ELSE IF cons_err_field(regs.CMDQ_CONS) # 0
            THEN /\ pc' = "panic"
                 /\ UNCHANGED cmd_queue
            ELSE /\ cmd_queue' = set_cons_value(cmd_queue, cons_rd_field(regs.CMDQ_CONS))
                 /\ pc' = "ac_event"
    /\ UNCHANGED << hal, free_page, idr, regs, event_queue, stream_table, cmdq_mem, strtab_mem, stack,
                    sid, timeout, devcalls, pending, k, log >>

\* A drain loop that returns without waiting for the command to be consumed.
AcDrain_nowait ==
    /\ pc = "ac_drain"
    /\ pc' = "ac_sync"
    /\ UNCHANGED << hal, free_page, idr, regs, cmd_queue, event_queue, stream_table, cmdq_mem,
                    strtab_mem, stack, sid, timeout, devcalls, pending, k, log >>

\* add_cmd(), lines 250-260: one evaluation of `while !self.cmd_queue.empty()`.
AcDrain ==
    /\ pc = "ac_drain"
    /\ IF empty(cmd_queue)
       THEN /\ pc' = "ac_sync"
            /\ UNCHANGED cmd_queue
       ELSE /\ cmd_queue' = set_cons_value(cmd_queue, cons_rd_field(regs.CMDQ_CONS))
            /\ pc' = "ac_event"
    /\ UNCHANGED << hal, free_page, idr, regs, event_queue, stream_table, cmdq_mem, strtab_mem, stack,
                    sid, timeout, devcalls, pending, k, log >>

\* A find_event that ignores what it reads.
AcEvent_ignore ==
    /\ pc = "ac_event"
    /\ pc' = "ac_drain"
    /\ UNCHANGED << hal, free_page, idr, regs, cmd_queue, event_queue, stream_table, cmdq_mem,
                    strtab_mem, stack, sid, timeout, devcalls, pending, k, log >>

\* find_event()
AcEvent ==
    /\ pc = "ac_event"
    /\ pc' = IF regs.EVENTQ_CONS # 0 \/ regs.EVENTQ_PROD # 0 THEN "panic" ELSE "ac_drain"
    /\ UNCHANGED << hal, free_page, idr, regs, cmd_queue, event_queue, stream_table, cmdq_mem,
                    strtab_mem, stack, sid, timeout, devcalls, pending, k, log >>

\* A CMD_SYNC submitted with sync = true, which asks for a CMD_SYNC of its own.
AcSync_resync ==
    /\ pc = "ac_sync"
    /\ IF Top.sync
       THEN /\ stack' = Append(stack, Frame("ac_ret", cmd_sync, TRUE))
            /\ pc' = "ac_full"
       ELSE /\ pc' = "ac_ret"
            /\ UNCHANGED stack
    /\ UNCHANGED << hal, free_page, idr, regs, cmd_queue, event_queue, stream_table, cmdq_mem,
                    strtab_mem, sid, timeout, devcalls, pending, k, log >>

\* add_cmd(), lines 266-268: the CMD_SYNC is submitted by a nested add_cmd(_, false).
AcSync ==
    /\ pc = "ac_sync"
    /\ IF Top.sync
       THEN /\ stack' = Append(stack, Frame("ac_ret", cmd_sync, FALSE))
            /\ pc' = "ac_full"
       ELSE /\ pc' = "ac_ret"
            /\ UNCHANGED stack
    /\ UNCHANGED << hal, free_page, idr, regs, cmd_queue, event_queue, stream_table, cmdq_mem,
                    strtab_mem, sid, timeout, devcalls, pending, k, log >>

\* add_cmd() returns to its caller.
AcRet ==
    /\ pc = "ac_ret"
    /\ pc' = Top.ret
    /\ stack' = SubSeq(stack, 1, Len(stack) - 1)
    /\ UNCHANGED << hal, free_page, idr, regs, cmd_queue, event_queue, stream_table, cmdq_mem,
                    strtab_mem, sid, timeout, devcalls, pending, k, log >>

\* ------------------------------------------------- lib.rs: add_device()
\* An add_device that submits its CFGI_STE without asking for a CMD_SYNC.
AddDevice_nosync ==
    /\ pc = "ready"
    /\ devcalls < MaxDevCalls
    /\ \E s \in 0..(stream_table.entry_count - 1), vmid \in Vmids, s2pt_base \in S2ptBases :
        /\ sid' = s
        /\ strtab_mem' = [strtab_mem EXCEPT ![s] = s2_translated_entry(vmid, s2pt_base)]
        /\ log' = Append(log, SteWrite(s, s2_translated_entry(vmid, s2pt_base)))
        /\ stack' = Append(stack, Frame("dev_prefetch", cmd_cfgi_ste(Bits(s)), FALSE))
    /\ pc' = "ac_full"
    /\ UNCHANGED << hal, free_page, idr, regs, cmd_queue, event_queue, stream_table, cmdq_mem, timeout,
                    devcalls, pending, k >>

\* add_device(), lines 280-288: the STE write and the call of add_cmd(cmd, true).
AddDevice ==
    /\ pc = "ready"
    /\ devcalls < MaxDevCalls
    /\ \E s \in 0..(stream_table.entry_count - 1), vmid \in Vmids, s2pt_base \in S2ptBases :
        /\ sid' = s
        /\ strtab_mem' = [strtab_mem EXCEPT ![s] = s2_translated_entry(vmid, s2pt_base)]
        /\ log' = Append(log, SteWrite(s, s2_translated_entry(vmid, s2pt_base)))
        /\ stack' = Append(stack, Frame("dev_prefetch", cmd_cfgi_ste(Bits(s)), TRUE))
    /\ pc' = "ac_full"
    /\ UNCHANGED << hal, free_page, idr, regs, cmd_queue, event_queue, stream_table, cmdq_mem, timeout,
                    devcalls, pending, k >>

\* A cmd_prefetch that submits PREFETCH_CONFIG without asking for a CMD_SYNC.
CmdPrefetch_nosync ==
    /\ pc = "dev_prefetch"
    /\ stack' = Append(stack, Frame("dev_ret", cmd_prefetch_config(sid), FALSE))
    /\ pc' = "ac_full"
    /\ UNCHANGED << hal, free_page, idr, regs, cmd_queue, event_queue, stream_table, cmdq_mem,
                    strtab_mem, sid, timeout, devcalls, pending, k, log >>

\* cmd_prefetch(sid)
CmdPrefetch ==
    /\ pc = "dev_prefetch"
    /\ stack' = Append(stack, Frame("dev_ret", cmd_prefetch_config(sid), TRUE))
    /\ pc' = "ac_full"
    /\ UNCHANGED << hal, free_page, idr, regs, cmd_queue, event_queue, stream_table, cmdq_mem,
                    strtab_mem, sid, timeout, devcalls, pending, k, log >>

\* add_device() returns.
AddDeviceRet ==
    /\ pc = "dev_ret"
    /\ devcalls' = devcalls + 1
    /\ pc' = "ready"
    /\ UNCHANGED << hal, free_page, idr, regs, cmd_queue, event_queue, stream_table, cmdq_mem,
                    strtab_mem, stack, sid, timeout, pending, k, log >>

\* ----------------------------------------------------------- the hardware
\* The SMMU acknowledges one enable bit of CR0 in CR0ACK.
HwAck ==
    /\ \E b \in {CR0_SMMUEN, CR0_EVENTQEN, CR0_CMDQEN} :
        /\ is_set(regs.CR0, b) # is_set(regs.CR0ACK, b)
        /\ regs' = [regs EXCEPT !.CR0ACK = CopyBit(regs.CR0ACK, regs.CR0, b)]
    /\ UNCHANGED << hal, free_page, idr, cmd_queue, event_queue, stream_table, cmdq_mem, strtab_mem,
                    pc, stack, sid, timeout, devcalls, pending, k, log >>

\* The queue size the hardware uses: CMDQ_BASE.LOG2SIZE.
HwLog2Size == LowVal(regs.CMDQ_BASE, 5)

\* The SMMU consumes the command at CMDQ_CONS.RD and advances RD towards CMDQ_PROD.WR;
\* CMDQ_CONS.ERR may show any of the error codes.
HwConsume ==
    /\ is_set(regs.CR0, CR0_CMDQEN)
    /\ is_set(regs.CR0ACK, CR0_CMDQEN)
    /\ LET span == Pow2(HwLog2Size + 1)
           rd == cons_rd_field(regs.CMDQ_CONS) % span
           wr == regs.CMDQ_PROD % span
           idx == rd % Pow2(HwLog2Size)
       IN /\ rd # wr
          /\ \E err \in ErrCodes :
                regs' = [regs EXCEPT !.CMDQ_CONS = ((rd + 1) % span) + (err * Pow2(CMDQ_CONS_ERR_SHIFT))]
          /\ pending' = pending \ {idx}
          /\ log' = Append(log, Consumed(idx, cmdq_mem[idx]))
    /\ UNCHANGED << hal, free_page, idr, cmd_queue, event_queue, stream_table, cmdq_mem, strtab_mem,
                    pc, stack, sid, timeout, devcalls, k >>

\* The enabled SMMU records an event: EVENTQ_PROD.WR moves off zero.
HwEvent ==
    /\ is_set(regs.CR0ACK, CR0_SMMUEN)
    /\ is_set(regs.CR0ACK, CR0_EVENTQEN)
    /\ regs.EVENTQ_PROD = 0
    /\ regs' = [regs EXCEPT !.EVENTQ_PROD = 1]
    /\ UNCHANGED << hal, free_page, idr, cmd_queue, event_queue, stream_table, cmdq_mem, strtab_mem,
                    pc, stack, sid, timeout, devcalls, pending, k, log >>

Next ==
    \/ Probe \/ CmdqInit \/ WriteCmdqBase \/ WriteCmdqProd \/ WriteCmdqCons
    \/ WriteCr0Cmdqen \/ PollCmdqen \/ StrtabInit \/ StLoop \/ StNext \/ StFlush
    \/ WriteStrtabBaseCfg \/ WriteStrtabBase \/ EventqInit \/ WriteEventqBase
    \/ WriteEventqProd \/ WriteEventqCons \/ WriteCr1 \/ WriteCr2 \/ WriteCr0Enable
    \/ PollEnable \/ EnableTimeout
    \/ AcFull \/ AcInsert \/ AcProd \/ AcDrain \/ AcEvent \/ AcSync \/ AcRet
    \/ AddDevice \/ CmdPrefetch \/ AddDeviceRet
    \/ HwAck \/ HwConsume \/ HwEvent

Spec == Init /\ [][Next]_vars

\* The steps of the driver's own code, once an operation has been called.
DriverStep ==
    \/ Probe \/ CmdqInit \/ WriteCmdqBase \/ WriteCmdqProd \/ WriteCmdqCons
    \/ WriteCr0Cmdqen \/ PollCmdqen \/ StrtabInit \/ StLoop \/ StNext \/ StFlush
    \/ WriteStrtabBaseCfg \/ WriteStrtabBase \/ EventqInit \/ WriteEventqBase
    \/ WriteEventqProd \/ WriteEventqCons \/ WriteCr1 \/ WriteCr2 \/ WriteCr0Enable
    \/ PollEnable \/ EnableTimeout
    \/ AcFull \/ AcInsert \/ AcProd \/ AcDrain \/ AcEvent \/ AcSync \/ AcRet
    \/ CmdPrefetch \/ AddDeviceRet

\* init() called on one platform family: identity address map, a StreamID width within
\* the capability check.
LiveInit == Init /\ hal.virt_offset = 0 /\ idr = [SIDSIZE |-> 6, ST_LEVEL |-> 0]

\* The hardware's own progress: acknowledging CR0, consuming published commands.
HwStep == HwAck \/ HwConsume

\* The driver's code keeps running, whatever the hardware does.
SpecDriverFair == LiveInit /\ [][Next]_vars /\ WF_vars(DriverStep)

\* The driver's code keeps running and the hardware makes progress: it acknowledges
\* CR0 and consumes the commands published in CMDQ_PROD.
SpecHwFair == LiveInit /\ [][Next]_vars /\ WF_vars(DriverStep) /\ WF_vars(HwStep)

\* init() called on an SMMU that is already enabled and acknowledged (left so by
\* firmware or by an earlier init()).
EnabledInit ==
    /\ hal \in Platforms
    /\ hal.virt_offset = 0
    /\ free_page = PoolBase
    /\ idr = [SIDSIZE |-> 6, ST_LEVEL |-> 0]
    /\ regs = [ResetRegs(0, 0) EXCEPT !.CR0 = cr0_enable_value, !.CR0ACK = cr0_enable_value]
    /\ cmd_queue = QueueUninit
    /\ event_queue = QueueUninit
    /\ stream_table = StreamTableUninit
    /\ cmdq_mem = << >>
    /\ strtab_mem = << >>
    /\ pc = "init"
    /\ stack = << >>
    /\ sid = 0
    /\ timeout = 0
    /\ devcalls = 0
    /\ pending = {}
    /\ k = 0
    /\ log = << >>

SpecEnabledAtEntry == EnabledInit /\ [][Next]_vars

\* ------------------------------ add_device with any StreamID argument
\* The sid arguments of add_device: inside every table the model configures (0), and
\* at or past its end (1 for a table of one STE, 2 for all).
DevSids == 0..2

\* The outcomes of the store through ste(sid) when sid >= entry_count, which nothing
\* checks: the store lands at base + sid * 64, past the region, or the access faults.
OutOfBoundsOutcomes == { "store", "fault" }

\* strtab_mem is the memory at the table base in units of STRTAB_STE_SIZE: a slot at
\* or past entry_count is memory outside the table region.
ste_store(s, val) ==
    [x \in (DOMAIN strtab_mem) \cup {s} |-> IF x = s THEN val ELSE strtab_mem[x]]

\* add_device(sid, vmid, s2pt_base), lines 280-288, for any sid.
AddDeviceAnySid ==
    /\ pc = "ready"
    /\ devcalls < MaxDevCalls
    /\ \E s \in DevSids, vmid \in Vmids, s2pt_base \in S2ptBases,
          outcome \in OutOfBoundsOutcomes :
        IF s >= stream_table.entry_count /\ outcome = "fault"
        THEN /\ pc' = "panic"
             /\ UNCHANGED << sid, strtab_mem, log, stack >>
        ELSE /\ sid' = s
             /\ strtab_mem' = ste_store(s, s2_translated_entry(vmid, s2pt_base))
             /\ log' = Append(log, SteWrite(s, s2_translated_entry(vmid, s2pt_base)))
             /\ stack' = Append(stack, Frame("dev_prefetch", cmd_cfgi_ste(Bits(s)), TRUE))
             /\ pc' = "ac_full"
    /\ UNCHANGED << hal, free_page, idr, regs, cmd_queue, event_queue, stream_table, cmdq_mem, timeout,
                    devcalls, pending, k >>

AnySidNext == DriverStep \/ HwAck \/ HwConsume \/ HwEvent \/ AddDeviceAnySid

SpecAnySid == LiveInit /\ [][AnySidNext]_vars

\* ------------------------------------------ add_device before init()
\* What an add_device call on the driver as SMMUv3::new left it can do. Nothing in
\* add_device looks at the driver's state, and the stores go through the uninit bases
\* (0xdead_beef, not 8-byte aligned, owned by nobody), so the build decides:
\*   "fault"     the STE store traps (alignment check, unmapped address);
\*   "overflow"  the STE store lands, then `self.queue_size - 1` with queue_size = 0
\*               panics in full() (overflow checks on);
\*   "slot"      the STE store lands, the subtraction wraps, the view reads not full,
\*               cmd_insert stores the command at slot 0 and the assertion of
\*               inc_proc_wq fails.
UninitOutcomes == { "fault", "overflow", "slot" }

\* add_device(sid, vmid, s2pt_base) called before init(): the whole call, which ends
\* in a panic on every path.
AddDeviceUninit ==
    /\ pc = "init"
    /\ stream_table = StreamTableUninit
    /\ cmd_queue = QueueUninit
    /\ \E s \in DevSids, vmid \in Vmids, s2pt_base \in S2ptBases, outcome \in UninitOutcomes :
        /\ sid' = s
        /\ IF outcome = "fault"
           THEN UNCHANGED << strtab_mem, cmdq_mem, log, pending, k >>
           ELSE /\ strtab_mem' = ste_store(s, s2_translated_entry(vmid, s2pt_base))
                /\ IF outcome = "overflow"
                   THEN /\ log' = Append(log, SteWrite(s, s2_translated_entry(vmid, s2pt_base)))
                        /\ UNCHANGED << cmdq_mem, pending, k >>
                   ELSE /\ ~full(cmd_queue)
                        /\ ~inc_assert_ok(cmd_queue)
                        /\ cmdq_mem' = (prod_wr(cmd_queue) :> cmd_cfgi_ste(Bits(s)))
                        /\ pending' = pending \cup {prod_wr(cmd_queue)}
                        /\ k' = k + 1
                        /\ log' = log \o << SteWrite(s, s2_translated_entry(vmid, s2pt_base)),
                                           Inserted(prod_wr(cmd_queue), cmd_cfgi_ste(Bits(s))) >>
    /\ pc' = "panic"
    /\ UNCHANGED << hal, free_page, idr, regs, cmd_queue, event_queue, stream_table, stack,
                    timeout, devcalls >>

SpecBeforeInit == Init /\ [][AddDeviceUninit]_vars

\* ------------------------------------------- the Queue on its own (test_queue)
\* A Queue initialised with log2 size Q, as test_queue does with queue.init(7).
QInit ==
    /\ hal \in [ SID_BITS_SET : {0}, CMDQ_EVENTQ_BITS_SET : 0..MaxQ, virt_offset : {0} ]
    /\ free_page = PoolBase
    /\ idr = [ SIDSIZE |-> 0, ST_LEVEL |-> 0 ]
    /\ regs = ResetRegs(0, 0)
    /\ cmd_queue = queue_init(QueueUninit, hal.CMDQ_EVENTQ_BITS_SET, phys_to_virt(PoolBase))
    /\ event_queue = QueueUninit
    /\ stream_table = StreamTableUninit
    /\ cmdq_mem = [i \in 0..(Pow2(Min(hal.CMDQ_EVENTQ_BITS_SET, MAX_CMD_EVENT_QS)) - 1) |-> NoCmd]
    /\ strtab_mem = << >>
    /\ pc = "queue"
    /\ stack = << >>
    /\ sid = 0
    /\ timeout = 0
    /\ devcalls = 0
    /\ pending = {}
    /\ k = 0
    /\ log = << >>

\* queue.cmd_insert(Cmd::cmd_cfgi_ste(i)), called whatever the state of the queue.
QInsert ==
    /\ pc = "queue"
    /\ k < MaxInserts
    /\ cmdq_mem' = cmd_insert_mem(cmd_queue, cmdq_mem, cmd_cfgi_ste(Bits(k)))
    /\ pending' = pending \cup {prod_wr(cmd_queue)}
    /\ k' = k + 1
    /\ IF inc_assert_ok(cmd_queue)
       THEN cmd_queue' = inc_proc_wq(cmd_queue) /\ pc' = pc
       ELSE UNCHANGED cmd_queue /\ pc' = "panic"
    /\ UNCHANGED << hal, free_page, idr, regs, event_queue, stream_table, strtab_mem,
                    stack, sid, timeout, devcalls, log >>

\* queue.set_cons_value(v), for any v of Q+2 bits (one bit more than wrap and index).
QSetCons ==
    /\ pc = "queue"
    /\ \E v \in 0..(Pow2(cmd_queue.qs + 2) - 1) :
        /\ v # cmd_queue.cons
        /\ cmd_queue' = set_cons_value(cmd_queue, v)
    /\ UNCHANGED << hal, free_page, idr, regs, event_queue, stream_table, cmdq_mem,
                    strtab_mem, pc, stack, sid, timeout, devcalls, pending, k, log >>

QNext == QInsert \/ QSetCons

SpecQueue == QInit /\ [][QNext]_vars

\* queue.init(Q) called on the queue in whatever state it is in; the platform hands
\* out the same page each time, as test_queue's DummyPagingHandler does.
QueueInitCall ==
    /\ pc = "queue"
    /\ cmd_queue' = queue_init(cmd_queue, hal.CMDQ_EVENTQ_BITS_SET, phys_to_virt(PoolBase))
    /\ pc' = "queue_inited"
    /\ UNCHANGED << hal, free_page, idr, regs, event_queue, stream_table, cmdq_mem,
                    strtab_mem, stack, sid, timeout, devcalls, pending, k, log >>

\* Queue::init has returned; the caller goes on using the queue.
QueueInitRet ==
    /\ pc = "queue_inited"
    /\ pc' = "queue"
    /\ UNCHANGED << hal, free_page, idr, regs, cmd_queue, event_queue, stream_table, cmdq_mem,
                    strtab_mem, stack, sid, timeout, devcalls, pending, k, log >>

QReinitNext == QInsert \/ QSetCons \/ QueueInitCall \/ QueueInitRet

SpecQueueReinit == QInit /\ [][QReinitNext]_vars

\* ------------------------------------------- Cmd::cmd_cfgi_ste on its own
\* The u32 StreamIDs handed to cmd_cfgi_ste: zero, every single bit, all ones, both
\* ends, the low and the high byte.
CfgiSids == { {} } \cup { {b} : b \in 0..31 } \cup { 0..31, {0, 31}, 0..7, 24..31 }

\* A Queue of two slots, as Queue::init(1) leaves it.
CmdInit ==
    /\ hal = [ SID_BITS_SET |-> 0, CMDQ_EVENTQ_BITS_SET |-> 1, virt_offset |-> 0 ]
    /\ free_page = PoolBase + PAGE_SIZE_4K
    /\ idr = [ SIDSIZE |-> 0, ST_LEVEL |-> 0 ]
    /\ regs = ResetRegs(0, 0)
    /\ cmd_queue = queue_init(QueueUninit, 1, phys_to_virt(PoolBase))
    /\ event_queue = QueueUninit
    /\ stream_table = StreamTableUninit
    /\ cmdq_mem = [i \in 0..1 |-> NoCmd]
    /\ strtab_mem = << >>
    /\ pc = "cmd"
    /\ stack = << >>
    /\ sid = 0
    /\ timeout = 0
    /\ devcalls = 0
    /\ pending = {}
    /\ k = 0
    /\ log = << >>

\* The last call of cmd_cfgi_ste, with its argument and the slot its result went to.
CfgiCall(idx, stream_id) == [ev |-> "cfgi", idx |-> idx, stream_id |-> stream_id]

\* queue.cmd_insert(Cmd::cmd_cfgi_ste(i)), as in test_queue, for any u32 i.
CfgiInsert ==
    /\ pc = "cmd"
    /\ \E stream_id \in CfgiSids :
        /\ cmdq_mem' = cmd_insert_mem(cmd_queue, cmdq_mem, cmd_cfgi_ste(stream_id))
        /\ log' = << CfgiCall(prod_wr(cmd_queue), stream_id) >>
    /\ cmd_queue' = inc_proc_wq(cmd_queue)
    /\ UNCHANGED << hal, free_page, idr, regs, event_queue, stream_table, strtab_mem,
                    pc, stack, sid, timeout, devcalls, pending, k >>

SpecCmd == CmdInit /\ [][CfgiInsert]_vars

\* ------------------------------------- the Stream Table on its own
\* The VMIDs handed to set_s2_translated_ste: within 16 bits, and two wider ones.
SteVmids == { Bits(0), Bits(66), Bits(65535), {16}, {33} }

\* The stage-2 table bases handed to it: 16-byte-aligned below 2^52, one unaligned,
\* one above 2^52.
SteS2ptBases == { {}, {4}, {12, 47}, {51}, {0, 12}, {12, 52} }

\* A Stream Table of two entries as LinearStreamTable::init leaves it.
SteInit ==
    /\ hal = [ SID_BITS_SET |-> 1, CMDQ_EVENTQ_BITS_SET |-> 0, virt_offset |-> 0 ]
    /\ free_page = PoolBase + PAGE_SIZE_4K
    /\ idr = [ SIDSIZE |-> 6, ST_LEVEL |-> 0 ]
    /\ regs = ResetRegs(0, 0)
    /\ cmd_queue = QueueUninit
    /\ event_queue = QueueUninit
    /\ stream_table = [base |-> PoolBase, entry_count |-> Pow2(1)]
    /\ cmdq_mem = << >>
    /\ strtab_mem = [s \in 0..(Pow2(1) - 1) |-> bypass_entry]
    /\ pc = "ste"
    /\ stack = << >>
    /\ sid = 0
    /\ timeout = 0
    /\ devcalls = 0
    /\ pending = {}
    /\ k = 0
    /\ log = << >>

\* The last call made on the Stream Table, with its arguments.
S2Call(s, vmid, s2pt_base) == [ev |-> "s2", sid |-> s, vmid |-> vmid, s2pt_base |-> s2pt_base]
BypassCall(s) == [ev |-> "bypass", sid |-> s]

\* LinearStreamTable::set_bypass_ste(sid)
set_bypass_ste ==
    /\ pc = "ste"
    /\ \E s \in 0..(stream_table.entry_count - 1) :
        /\ strtab_mem' = [strtab_mem EXCEPT ![s] = bypass_entry]
        /\ log' = << BypassCall(s) >>
    /\ UNCHANGED << hal, free_page, idr, regs, cmd_queue, event_queue, stream_table, cmdq_mem,
                    pc, stack, sid, timeout, devcalls, pending, k >>

\* LinearStreamTable::set_s2_translated_ste(sid, vmid, s2pt_base)
set_s2_translated_ste ==
    /\ pc = "ste"
    /\ \E s \in 0..(stream_table.entry_count - 1), vmid \in SteVmids, s2pt_base \in SteS2ptBases :
        /\ strtab_mem' = [strtab_mem EXCEPT ![s] = s2_translated_entry(vmid, s2pt_base)]
        /\ log' = << S2Call(s, vmid, s2pt_base) >>
    /\ UNCHANGED << hal, free_page, idr, regs, cmd_queue, event_queue, stream_table, cmdq_mem,
                    pc, stack, sid, timeout, devcalls, pending, k >>

SteNext == set_bypass_ste \/ set_s2_translated_ste

SpecSte == SteInit /\ [][SteNext]_vars

\* --------------------------- init() up to the Stream Table's allocation
\* Platforms whose tables and queues reach past one 4 KiB page: 2^7 and 2^8 STEs of
\* 64 bytes, 2^9 commands of 16 bytes.
SizingPlatforms ==
    [ SID_BITS_SET : {0, 6, 7, 8}, CMDQ_EVENTQ_BITS_SET : {0, 8, 9}, virt_offset : {0} ]

\* IDR1.CMDQS, the largest log2 queue size the hardware supports, next to the
\* fields init() reads.
SizingIdrValues == [ SIDSIZE : {8}, ST_LEVEL : {1}, CMDQS : {0, 8, 19} ]

\* The first address of the allocator's pool: any multiple of 4 KiB.
SizingPools == { n * PAGE_SIZE_4K : n \in 1..4 }

SizingInit ==
    /\ hal \in SizingPlatforms
    /\ free_page \in SizingPools
    /\ idr \in SizingIdrValues
    /\ regs = ResetRegs(0, 0)
    /\ cmd_queue = QueueUninit
    /\ event_queue = QueueUninit
    /\ stream_table = StreamTableUninit
    /\ cmdq_mem = << >>
    /\ strtab_mem = << >>
    /\ pc = "init"
    /\ stack = << >>
    /\ sid = 0
    /\ timeout = 0
    /\ devcalls = 0
    /\ pending = {}
    /\ k = 0
    /\ log = << >>

\* init() from its first statement to self.stream_table.init(H::SID_BITS_SET).
SizingNext ==
    \/ Probe \/ CmdqInit \/ WriteCmdqBase \/ WriteCmdqProd \/ WriteCmdqCons
    \/ WriteCr0Cmdqen \/ PollCmdqen \/ StrtabInit \/ HwAck

SpecSizing == SizingInit /\ [][SizingNext]_vars

\* ------------------------------------------------------ reading the history
IsInsert(e) == e.ev = "insert"
IsInsertOrConsume(e) == e.ev = "insert" \/ e.ev = "consume"
IsProdWrite(e) == e.ev = "w" /\ e.reg = "CMDQ_PROD"

\* The events logged after the first m.
EventsSince(m) == SubSeq(log, m + 1, Len(log))

\* The commands inserted after the first m events, in order.
InsertsSince(m) ==
    LET ins == SelectSeq(EventsSince(m), IsInsert)
    IN [i \in 1..Len(ins) |-> ins[i].cmd]

\* The insertions and consumptions after the first m events, in order.
QueueTrafficSince(m) ==
    LET t == SelectSeq(EventsSince(m), IsInsertOrConsume)
    IN [i \in 1..Len(t) |-> << t[i].ev, t[i].cmd >>]

\* The log2 size the queue was initialised with.
Q == hal.CMDQ_EVENTQ_BITS_SET

\* ------------------------------------------------------------------ claims

\* C1: in every interleaving of the driver's add_cmd calls with the hardware
\* consumer, cmd_insert runs only when the software queue view is not full, and the
\* slot it is about to write holds no command the hardware has not yet consumed.
C1_InsertOnlyIntoFreeSlot ==
    pc = "ac_insert" =>
        /\ ~(prod_wr(cmd_queue) = cons_rd(cmd_queue)
             /\ prod_wr_wrap(cmd_queue) # cons_rd_wrap(cmd_queue))
        /\ prod_wr(cmd_queue) \notin pending

\* C1 witness: cmd_insert is about to reuse a slot that held an earlier command,
\* after the producer has wrapped.
C1_Witness ==
    /\ pc = "ac_insert"
    /\ k >= 2 * cmd_queue.queue_size
    /\ cmdq_mem[prod_wr(cmd_queue)] # NoCmd

\* C2: after k cmd_insert calls from producer 0, with any set_cons_value calls
\* interleaved, the producer is {wrap, idx} = ((k div 2^Q) mod 2, k mod 2^Q), that is
\* prod_value() = k mod 2^(Q+1); the index stays in [0, 2^Q) and the assertion of the
\* producer increment never fails.
C2_ProducerAfterKInserts ==
    /\ prod_wr(cmd_queue) = k % Pow2(Q)
    /\ prod_wr_wrap(cmd_queue) = (((k \div Pow2(Q)) % 2) = 1)
    /\ prod_value(cmd_queue) = k % Pow2(Q + 1)
    /\ prod_wr(cmd_queue) < Pow2(Q)
    /\ pc # "panic"

\* C2 witness: nine inserts into a queue of four slots: the wrap bit has toggled
\* twice and the index is 1.
C2_Witness ==
    /\ pc = "queue"
    /\ Q = 2
    /\ k = 9
    /\ prod_value(cmd_queue) = 1
    /\ cmd_queue.cons # 0

\* C3: with k commands inserted and c consumed as the mirrored consumer value shows
\* (0 <= k - c <= 2^Q), full() is true exactly when k - c = 2^Q and empty() exactly
\* when k = c; full() and empty() are never both true.
C3_FullEmptyExact ==
    /\ \A c \in 0..k :
        (k - c <= Pow2(Q) /\ cons_value(cmd_queue) = c % Pow2(Q + 1)) =>
            /\ full(cmd_queue) <=> (k - c = Pow2(Q))
            /\ empty(cmd_queue) <=> (k = c)
    /\ ~(full(cmd_queue) /\ empty(cmd_queue))

\* C3 witness: six inserts and two consumed in a queue of four slots: the queue is
\* full, with the producer wrapped.
C3_Witness ==
    /\ pc = "queue"
    /\ Q = 2
    /\ k = 6
    /\ cons_value(cmd_queue) = 2
    /\ full(cmd_queue)
    /\ ~empty(cmd_queue)

\* C4: whenever add_cmd returns, every command it inserted has been consumed by the
\* hardware: the mirrored consumer equals the producer in index and wrap bit, no
\* slot holds an unconsumed command, and CMDQ_PROD holds prod_value().
C4_ReturnsDrained ==
    pc = "ac_ret" =>
        /\ cons_rd(cmd_queue) = prod_wr(cmd_queue)
        /\ cons_rd_wrap(cmd_queue) = prod_wr_wrap(cmd_queue)
        /\ pending = {}
        /\ \A i \in 1..Len(InsertsSince(Top.mark)) :
              QueueTrafficSince(Top.mark)[2 * i] = << "consume", InsertsSince(Top.mark)[i] >>
        /\ regs.CMDQ_PROD = prod_value(cmd_queue)
        /\ cons_rd_field(regs.CMDQ_CONS) = regs.CMDQ_PROD

\* C4 witness: add_cmd(CFGI_STE, true) returns after the producer has wrapped.
C4_Witness ==
    /\ pc = "ac_ret"
    /\ Len(stack) = 1
    /\ Top.sync
    /\ k > cmd_queue.queue_size
    /\ Len(InsertsSince(Top.mark)) = 2

\* C5: add_cmd(cmd, true) inserts exactly two commands, cmd and then one CMD_SYNC,
\* the CMD_SYNC only after cmd has been consumed; add_cmd(cmd, false) inserts exactly
\* one; the CMD_SYNC is submitted by a nested add_cmd(CMD_SYNC, false), which never
\* submits a further CMD_SYNC.
C5_SyncInsertsOneCmdSync ==
    /\ Len(stack) <= 2
    /\ Len(stack) = 2 => (stack[2].cmd = cmd_sync /\ ~stack[2].sync /\ stack[1].sync)
    /\ (pc = "ac_insert" /\ Len(stack) = 2) =>
            QueueTrafficSince(stack[1].mark) =
                << << "insert", stack[1].cmd >>, << "consume", stack[1].cmd >> >>
    /\ (pc = "ac_ret" /\ Top.sync) =>
            /\ InsertsSince(Top.mark) = << Top.cmd, cmd_sync >>
            /\ QueueTrafficSince(Top.mark) =
                << << "insert", Top.cmd >>, << "consume", Top.cmd >>,
                   << "insert", cmd_sync >>, << "consume", cmd_sync >> >>
    /\ (pc = "ac_ret" /\ ~Top.sync) => InsertsSince(Top.mark) = << Top.cmd >>

\* C5 witness: the add_cmd(CFGI_STE(1), true) of add_device returns with its two
\* inserts, the CMD_SYNC inserted after the CFGI_STE was consumed.
C5_Witness ==
    /\ pc = "ac_ret"
    /\ Len(stack) = 1
    /\ Top.sync
    /\ Top.ret = "dev_prefetch"
    /\ Top.cmd = cmd_cfgi_ste(Bits(1))
    /\ InsertsSince(Top.mark) = << Top.cmd, cmd_sync >>

\* The index of the last STE write in the history (0 when there is none).
LastSte ==
    LET idxs == { i \in 1..Len(log) : log[i].ev = "ste" }
    IN IF idxs = {} THEN 0 ELSE CHOOSE i \in idxs : \A j \in idxs : j <= i

\* The value of CMDQ_PROD before the m-th event: its last write among the first m - 1.
ProdBefore(m) ==
    LET idxs == { i \in 1..(m - 1) : IsProdWrite(log[i]) }
    IN IF idxs = {} THEN 0 ELSE log[CHOOSE i \in idxs : \A j \in idxs : j <= i].val

\* C6: every STE write of add_device(sid, ...) is followed, before add_device
\* returns, by a CFGI_STE(sid) published after the STE write and by a CMD_SYNC
\* published after that CFGI_STE, and the hardware has consumed both (CMDQ_CONS has
\* advanced past them) when add_device returns.
C6_AddDeviceInvalidatesAndSyncs ==
    pc = "dev_ret" =>
        LET t == EventsSince(LastSte - 1)
        IN /\ Len(t) >= 7
           /\ t[1].ev = "ste" /\ t[1].sid = sid
           /\ t[2].ev = "insert" /\ t[2].cmd = cmd_cfgi_ste(Bits(sid))
           /\ IsProdWrite(t[3])
           /\ t[4].ev = "consume" /\ t[4].cmd = cmd_cfgi_ste(Bits(sid)) /\ t[4].idx = t[2].idx
           /\ t[5].ev = "insert" /\ t[5].cmd = cmd_sync
           /\ IsProdWrite(t[6])
           /\ t[7].ev = "consume" /\ t[7].cmd = cmd_sync /\ t[7].idx = t[5].idx
           /\ cons_rd_field(regs.CMDQ_CONS) = regs.CMDQ_PROD
           /\ pending = {}

\* C6 witness: add_device(1, ...) is about to return, with the stage-2 STE in place.
C6_Witness ==
    /\ pc = "dev_ret"
    /\ sid = 1
    /\ strtab_mem[1][1] = STRTAB_STE_0_V \cup STRTAB_STE_0_CFG_S1_BYPASS_S2_TRANS
    /\ log[LastSte].sid = 1

\* The StreamID a CFGI_STE command names.
CfgiSid(cmd) == LowVal(cmd_sid(cmd), 8)

\* A flush of [start, start + len) covers the 64 bytes of the STE of StreamID s.
FlushCovers(e, s) ==
    /\ e.start <= stream_table.base + s * STRTAB_STE_SIZE
    /\ stream_table.base + (s + 1) * STRTAB_STE_SIZE <= e.start + e.len

\* C7: between every STE write (the bypass write of stream_table_init, the stage-2
\* write of add_device) and the publication of the CFGI_STE for that StreamID, a
\* cache-maintenance flush covering the bytes of that STE has completed.
C7_FlushBeforeCfgiSte ==
    \A p \in 2..Len(log) :
        ( /\ IsProdWrite(log[p])
          /\ log[p - 1].ev = "insert"
          /\ cmd_opcode(log[p - 1].cmd) = Bits(CMD_CFGI_STE) ) =>
            \A w \in 1..(p - 1) :
                (log[w].ev = "ste" /\ log[w].sid = CfgiSid(log[p - 1].cmd)) =>
                    \E f \in (w + 1)..(p - 1) :
                        log[f].ev = "flush" /\ FlushCovers(log[f], log[w].sid)

\* C8, as claimed: one add_device(sid, vmid, s2pt_base) inserts exactly one
\* CFGI_STE(sid) with Leaf = 1 and exactly one CMD_SYNC, so the producer and
\* CMDQ_PROD advance by exactly 2 slots modulo 2^(Q+1).
C8_AddDeviceInsertsTwo ==
    pc = "dev_ret" =>
        /\ InsertsSince(LastSte) = << cmd_cfgi_ste(Bits(sid)), cmd_sync >>
        /\ regs.CMDQ_PROD = (ProdBefore(LastSte) + 2) % Pow2(Q + 1)
        /\ prod_value(cmd_queue) = regs.CMDQ_PROD

\* C8, amended: one add_device(sid, vmid, s2pt_base) inserts exactly four commands:
\* one CFGI_STE(sid) with Leaf = 1, a CMD_SYNC, one PREFETCH_CONFIG(sid) and a second
\* CMD_SYNC, so the producer and CMDQ_PROD advance by exactly 4 slots modulo 2^(Q+1).
C8_AddDeviceInsertsFour ==
    pc = "dev_ret" =>
        /\ InsertsSince(LastSte) =
              << cmd_cfgi_ste(Bits(sid)), cmd_sync, cmd_prefetch_config(sid), cmd_sync >>
        /\ InsertsSince(LastSte)[1][2] = Bits(CMDQ_CFGI_1_LEAF)
        /\ cmd_sid(InsertsSince(LastSte)[1]) = Bits(sid)
        /\ regs.CMDQ_PROD = (ProdBefore(LastSte) + 4) % Pow2(Q + 1)
        /\ prod_value(cmd_queue) = regs.CMDQ_PROD

\* C8 witness: add_device(1, ...) is about to return on a queue of two slots, the
\* producer back where it started.
C8_Witness ==
    /\ pc = "dev_ret"
    /\ sid = 1
    /\ Q = 1
    /\ Len(InsertsSince(LastSte)) = 4
    /\ regs.CMDQ_PROD = ProdBefore(LastSte)

\* C9: during init() started from reset, every write to STRTAB_BASE or
\* STRTAB_BASE_CFG happens while CR0.SMMUEN = 0, and every write to CMDQ_BASE happens
\* while CR0.CMDQEN = 0.
C9_GuardedWrites ==
    \A i \in 1..Len(log) :
        log[i].ev = "w" =>
            /\ log[i].reg \in {"STRTAB_BASE", "STRTAB_BASE_CFG"} => ~is_set(log[i].cr0, CR0_SMMUEN)
            /\ log[i].reg = "CMDQ_BASE" => ~is_set(log[i].cr0, CR0_CMDQEN)

\* C9 witness: init() has written CMDQ_BASE, STRTAB_BASE_CFG and STRTAB_BASE, the
\* Stream Table registers with the Command Queue already enabled.
C9_Witness ==
    /\ pc = "evq_init"
    /\ \E i, j, l \in 1..Len(log) :
        /\ log[i].ev = "w" /\ log[i].reg = "CMDQ_BASE"
        /\ log[j].ev = "w" /\ log[j].reg = "STRTAB_BASE_CFG" /\ is_set(log[j].cr0, CR0_CMDQEN)
        /\ log[l].ev = "w" /\ log[l].reg = "STRTAB_BASE" /\ is_set(log[l].cr0, CR0_CMDQEN)

\* The index of the first write of CR0 with CMDQEN = 1 (0 when there is none).
FirstCmdqEnable ==
    LET idxs == { i \in 1..Len(log) :
                    log[i].ev = "w" /\ log[i].reg = "CR0" /\ is_set(log[i].val, CR0_CMDQEN) }
    IN IF idxs = {} THEN 0 ELSE CHOOSE i \in idxs : \A j \in idxs : i <= j

\* C10: in init(), CMDQ_PROD and CMDQ_CONS are each written with zero after
\* CMDQ_BASE has been written and before CR0.CMDQEN is first written to 1.
C10_IndicesZeroedBetween ==
    FirstCmdqEnable # 0 =>
        \E b \in 1..(FirstCmdqEnable - 1) :
            /\ log[b].ev = "w" /\ log[b].reg = "CMDQ_BASE"
            /\ \E p \in (b + 1)..(FirstCmdqEnable - 1) :
                  log[p].ev = "w" /\ log[p].reg = "CMDQ_PROD" /\ log[p].val = 0
            /\ \E c \in (b + 1)..(FirstCmdqEnable - 1) :
                  log[c].ev = "w" /\ log[c].reg = "CMDQ_CONS" /\ log[c].val = 0
            /\ \A i \in 1..(FirstCmdqEnable - 1) :
                  (log[i].ev = "w" /\ log[i].reg \in {"CMDQ_PROD", "CMDQ_CONS"}) =>
                      (i > b /\ log[i].val = 0)

\* C10 witness: init() has just written CR0.CMDQEN = 1 and polls for the acknowledge.
C10_Witness ==
    /\ pc = "poll_cmdqen"
    /\ FirstCmdqEnable = Len(log)
    /\ regs.CR0 = cr0_cmdqen_value
    /\ regs.CMDQ_PROD = 0
    /\ regs.CMDQ_CONS = 0

\* C11: the final enable step writes CR0 with exactly SMMUEN and CMDQEN set (0x9,
\* EVENTQEN not asserted), and its poll succeeds as soon as CR0ACK shows SMMUEN and
\* CMDQEN.
C11_EnableWritesSmmuenCmdqen ==
    /\ [](pc = "poll_enable" => regs.CR0 = Pow2(CR0_SMMUEN) + Pow2(CR0_CMDQEN))
    /\ [][(/\ pc = "poll_enable"
           /\ timeout < SyncTimeout
           /\ is_set(regs.CR0ACK, CR0_SMMUEN)
           /\ is_set(regs.CR0ACK, CR0_CMDQEN)
           /\ <<pc, timeout>>' # <<pc, timeout>>) => pc' = "ready"]_vars

\* C12: when the poll that follows CR0.CMDQEN = 1 ends without having seen
\* CR0ACK.CMDQEN, init() fails fatally and does not go on to the Stream Table.
C12_CmdqenTimeoutFatal ==
    [][(/\ pc = "poll_cmdqen"
        /\ timeout = SyncTimeout
        /\ ~is_set(regs.CR0ACK, CR0_CMDQEN)
        /\ pc' # pc) => pc' = "panic"]_vars

\* C13: when CR0ACK never shows SMMUEN, enable() polls CR0ACK at most
\* ARM_SMMU_SYNC_TIMEOUT times, then reports the error and returns, and init()
\* returns normally without a panic.
C13_EnableTimeoutReturns ==
    /\ [](pc = "poll_enable" => timeout <= SyncTimeout)
    /\ [][(/\ pc = "poll_enable"
           /\ ~is_set(regs.CR0ACK, CR0_SMMUEN)
           /\ <<pc, timeout>>' # <<pc, timeout>>) =>
              IF timeout < SyncTimeout
              THEN pc' = pc /\ timeout' = timeout + 1
              ELSE pc' = "enable_timeout"]_vars
    /\ [][(pc = "enable_timeout" /\ pc' # pc) => (pc' = "ready" /\ stack' = << >>)]_vars

\* C13 witness: init() has returned with SMMUEN requested and never acknowledged, the
\* Command Queue acknowledged and every command of the bring-up consumed.
C13_Witness ==
    /\ pc = "ready"
    /\ devcalls = 0
    /\ is_set(regs.CR0, CR0_SMMUEN)
    /\ ~is_set(regs.CR0ACK, CR0_SMMUEN)
    /\ is_set(regs.CR0ACK, CR0_CMDQEN)
    /\ k > 0
    /\ pending = {}

\* EVENTQ_PROD or EVENTQ_CONS reads non-zero.
EventRegsNonZero == regs.EVENTQ_CONS # 0 \/ regs.EVENTQ_PROD # 0

\* C14: when the hardware eventually advances CMDQ_CONS.RD to the published
\* CMDQ_PROD, every call of add_cmd eventually returns (its frame and that of its
\* nested CMD_SYNC call leave the stack), unless the event-queue registers read
\* non-zero during it.
C14_AddCmdReturns == (stack # << >>) ~> (stack = << >> \/ EventRegsNonZero)

\* C14 witness: the nested add_cmd(CMD_SYNC, false) returns, the queue drained by the
\* hardware and the event-queue registers zero.
C14_Witness ==
    /\ pc = "ac_ret"
    /\ Len(stack) = 2
    /\ Top.cmd = cmd_sync
    /\ ~EventRegsNonZero
    /\ regs.CMDQ_PROD # 0
    /\ cons_rd_field(regs.CMDQ_CONS) = regs.CMDQ_PROD

\* C15: for every behaviour of the hardware, each driver operation runs to
\* completion, aborts or times out: no execution polls forever.
C15_NoPollsForever == []<>(pc \in {"ready", "panic"})

\* C16: a poll of the drain loop that reads a non-zero CMDQ_CONS.ERR still stores
\* CMDQ_CONS.RD in the software consumer and goes on to the next iteration, and the
\* loop is left exactly when the consumer equals the producer, whatever ERR shows.
C16_ErrDoesNotAbort ==
    [][(pc = "ac_drain" /\ pc' # pc) =>
          IF empty(cmd_queue)
          THEN pc' = "ac_sync" /\ cmd_queue' = cmd_queue
          ELSE /\ pc' = "ac_event"
               /\ cons_value(cmd_queue') = regs.CMDQ_CONS % Pow2(CMDQ_RD_BITS)
               /\ prod_value(cmd_queue') = prod_value(cmd_queue)]_vars

\* C16 witness: the poll just made read ERR = 5 together with the RD that empties the
\* queue, so the next evaluation of the loop condition ends the drain.
C16_Witness ==
    /\ pc = "ac_event"
    /\ regs.CMDQ_CONS \div Pow2(CMDQ_CONS_ERR_SHIFT) = 5
    /\ cons_value(cmd_queue) = regs.CMDQ_CONS % Pow2(CMDQ_RD_BITS)
    /\ empty(cmd_queue)
    /\ ~EventRegsNonZero

\* C17: on each iteration of the drain loop, add_cmd panics when EVENTQ_PROD or
\* EVENTQ_CONS reads non-zero and goes on polling when both read zero.
C17_EventActivityFatal ==
    [][(pc = "ac_event" /\ pc' # pc) =>
          IF regs.EVENTQ_PROD # 0 \/ regs.EVENTQ_CONS # 0
          THEN pc' = "panic" /\ stack' = stack
          ELSE pc' = "ac_drain"]_vars

\* C17 witness: the SMMU recorded an event after init() had zeroed the event-queue
\* registers, and add_device's drain loop panicked on it.
C17_Witness ==
    /\ pc = "panic"
    /\ stack # << >>
    /\ devcalls = 0
    /\ Top.ret \in {"dev_prefetch", "dev_ret"}
    /\ regs.EVENTQ_PROD # 0
    /\ regs.EVENTQ_CONS = 0

\* The condition of init()'s capability check.
LinearOnlyTooWide == idr.SIDSIZE >= 7 /\ idr.ST_LEVEL = 0

DriverWritten ==
    << regs.CR0, regs.CR1, regs.CR2, regs.STRTAB_BASE, regs.STRTAB_BASE_CFG, regs.CMDQ_BASE,
       regs.CMDQ_PROD, regs.EVENTQ_BASE, cmd_queue, event_queue, stream_table, cmdq_mem,
       strtab_mem >>

\* C19: when alloc_pages returns no pages in the Command Queue's or the Stream
\* Table's init, init() panics there: the base register of the failed region is never
\* written, and nothing of the bring-up that follows (STE seeding, enabling) runs.
C19_AllocationFailureFatal ==
    /\ [][(pc = "cmdq_init" /\ pc' # pc) =>
            \/ pc' = "panic" /\ cmd_queue' = QueueUninit /\ free_page' = free_page
            \/ /\ pc' = "w_cmdq_base"
               /\ cmd_queue'.base = phys_to_virt(free_page)
               /\ free_page' > free_page]_vars
    /\ [][(pc = "strtab_init" /\ pc' # pc) =>
            \/ pc' = "panic" /\ stream_table' = StreamTableUninit /\ log' = log
            \/ pc' = "st_loop" /\ stream_table'.base = free_page]_vars
    /\ [][pc = "panic" => (pc' = "panic" /\ DriverWritten' = DriverWritten)]_vars
    /\ []((pc = "panic" /\ cmd_queue = QueueUninit) => (log = << >> /\ regs.CMDQ_BASE = {}))
    /\ []((pc = "panic" /\ stream_table = StreamTableUninit) =>
            /\ regs.STRTAB_BASE = {}
            /\ strtab_mem = << >>
            /\ ~is_set(regs.CR0, CR0_SMMUEN)
            /\ \A i \in 1..Len(log) : log[i].ev # "ste")

\* C19 witness: init() has panicked in the Stream Table's init, the Command Queue
\* programmed and enabled before it.
C19_Witness ==
    /\ pc = "panic"
    /\ cmd_queue # QueueUninit
    /\ stream_table = StreamTableUninit
    /\ regs.CMDQ_BASE # {}
    /\ regs.CR0 = cr0_cmdqen_value

\* C20: when init() has completed, entry_count() = 2^SID_BITS_SET and every STE of
\* the table is the bypass template: word 0 = 0x9 (V = 1, Config = 0b100), word 1 =
\* SHCFG "use incoming" (bit 44) only, words 2..7 zero.
C20_AllBypassAfterInit ==
    (pc = "ready" /\ devcalls = 0) =>
        /\ stream_table.entry_count = Pow2(hal.SID_BITS_SET)
        /\ DOMAIN strtab_mem = 0..(stream_table.entry_count - 1)
        /\ \A s \in 0..(stream_table.entry_count - 1) :
              strtab_mem[s] = << Bits(9), {44}, {}, {}, {}, {}, {}, {} >>

\* C20 witness: init() has completed on a table of two entries.
C20_Witness ==
    /\ pc = "ready"
    /\ devcalls = 0
    /\ stream_table.entry_count = 2
    /\ strtab_mem[1][1] = Bits(9)

\* The bits [hi:lo] of a word, moved down to bit 0.
Field(w, hi, lo) == { b - lo : b \in { x \in w : lo <= x /\ x <= hi } }

\* The STE the last call on the Stream Table wrote.
LastWritten == strtab_mem[log[1].sid]

\* C21: for vmid < 2^16 and a 16-byte-aligned s2pt_base below 2^52, the stage-2 STE
\* has vmid in bits [15:0] of word 2 and s2pt_base[51:4] << 4 in word 3, so both
\* inputs are read back from the STE.
C21_Stage2RoundTrip ==
    (/\ log # << >>
     /\ log[1].ev = "s2"
     /\ log[1].vmid \subseteq 0..15
     /\ log[1].s2pt_base \subseteq 4..51) =>
        /\ Field(LastWritten[3], 15, 0) = log[1].vmid
        /\ LastWritten[4] = Shl(Field(log[1].s2pt_base, 51, 4), 4)
        /\ LastWritten[4] = log[1].s2pt_base

\* C21 witness: a stage-2 STE built from vmid 0xFFFF and a table base with bits 12
\* and 47 set.
C21_Witness ==
    /\ log # << >>
    /\ log[1].ev = "s2"
    /\ log[1].vmid = Bits(65535)
    /\ log[1].s2pt_base = {12, 47}
    /\ LastWritten[4] = {12, 47}

\* C22: every bypass STE has V = 1 and Config = 0b100, every stage-2 STE has V = 1
\* and Config = 0b110, whatever vmid and s2pt_base; their words 0 never coincide.
C22_ValidAndConfig ==
    log # << >> =>
        /\ 0 \in LastWritten[1]
        /\ log[1].ev = "bypass" => Field(LastWritten[1], 3, 1) = Bits(4)
        /\ log[1].ev = "s2" => Field(LastWritten[1], 3, 1) = Bits(6)
        /\ \A s, t \in DOMAIN strtab_mem :
              (Field(strtab_mem[s][1], 3, 1) # Field(strtab_mem[t][1], 3, 1)) <=>
                  (strtab_mem[s][1] # strtab_mem[t][1])
        /\ \A vmid \in SteVmids, s2pt_base \in SteS2ptBases :
              bypass_entry[1] # s2_translated_entry(vmid, s2pt_base)[1]

\* C22 witness: the table holds a bypass STE next to a stage-2 STE built from inputs
\* outside the documented ranges.
C22_Witness ==
    /\ log # << >>
    /\ log[1].ev = "s2"
    /\ log[1].sid = 1
    /\ log[1].vmid = {33}
    /\ log[1].s2pt_base = {12, 52}
    /\ strtab_mem[0] = bypass_entry

\* C23: in every stage-2 STE, word 2 bits [50:32] hold the 19-bit VTCR value 0x23550
\* (T0SZ = 16, SL0 = 1, IRGN0 = 1, ORGN0 = 1, SH0 = 3, TG0 = 0, PS = 2), whatever
\* vmid and s2pt_base.
C23_FixedVtcr ==
    (log # << >> /\ log[1].ev = "s2" /\ log[1].vmid \subseteq 0..15) =>
        Field(LastWritten[3], 50, 32) = Bits(144720)

\* C24: the value init() writes to CMDQ_BASE has RA = 1, LOG2SIZE = Q and ADDR = bits
\* [55:5] of the physical base alloc_pages returned for the queue (the first
\* allocation, at PoolBase), whatever phys_to_virt maps it to.
C24_CmdqBasePhysical ==
    regs.CMDQ_BASE # {} =>
        /\ 62 \in regs.CMDQ_BASE
        /\ Field(regs.CMDQ_BASE, 4, 0) = Bits(Q)
        /\ Field(regs.CMDQ_BASE, 55, 5) = Field(Bits(PoolBase), 55, 5)

Max(a, b) == IF a > b THEN a ELSE b

\* C25: whatever 4 KiB-aligned address alloc_pages returns, the Stream Table base is
\* a multiple of entry_count * 64 and the Command Queue base (its physical address: the
\* address map is the identity here) a multiple of max(32, 2^Q * 16).
C25_NaturallyAligned ==
    /\ cmd_queue # QueueUninit =>
          cmd_queue.base % Max(32, Pow2(cmd_queue.qs) * CMD_SIZE) = 0
    /\ stream_table # StreamTableUninit =>
          stream_table.base % (stream_table.entry_count * STRTAB_STE_SIZE) = 0

\* C26: after set_cons_value(v) the software consumer holds v masked to its low Q+1
\* bits (wrap bit and index), so cons_value() < 2^(Q+1), and v is logged as invalid
\* only if it has a bit set outside those Q+1 bits. (The code stores v as given, so
\* the value stored is the argument of the last call.)
C26_ConsMaskedToWrapAndIndex ==
    /\ cons_value(cmd_queue) < Pow2(cmd_queue.qs + 1)
    /\ cons_warned(cmd_queue, cons_value(cmd_queue)) =>
          cons_value(cmd_queue) >= Pow2(cmd_queue.qs + 1)

\* C30: the LOG2SIZE init() writes to CMDQ_BASE is the log2 size Q the software Queue
\* uses, and Q <= min(19, IDR1.CMDQS).
C30_Log2SizeWithinCmdqs ==
    regs.CMDQ_BASE # {} =>
        /\ Field(regs.CMDQ_BASE, 4, 0) = Bits(cmd_queue.qs)
        /\ cmd_queue.queue_size = Pow2(cmd_queue.qs)
        /\ cmd_queue.qs <= Min(MAX_CMD_EVENT_QS, idr.CMDQS)

\* C27: when CMDQ_BASE is about to be written with CR0.CMDQEN = 1, or STRTAB_BASE or
\* STRTAB_BASE_CFG with CR0.SMMUEN = 1, an assertion of the driver trips and the
\* register is left as it was.
C27_GuardViolationTrips ==
    /\ [][(pc = "w_cmdq_base" /\ is_set(regs.CR0, CR0_CMDQEN) /\ pc' # pc) =>
            (pc' = "panic" /\ regs'.CMDQ_BASE = regs.CMDQ_BASE)]_vars
    /\ [][(pc = "w_strtab_base_cfg" /\ is_set(regs.CR0, CR0_SMMUEN) /\ pc' # pc) =>
            (pc' = "panic" /\ regs'.STRTAB_BASE_CFG = regs.STRTAB_BASE_CFG)]_vars
    /\ [][(pc = "w_strtab_base" /\ is_set(regs.CR0, CR0_SMMUEN) /\ pc' # pc) =>
            (pc' = "panic" /\ regs'.STRTAB_BASE = regs.STRTAB_BASE)]_vars

\* The index of the first write of CR0 with SMMUEN = 1 (0 when there is none).
FirstSmmuEnable ==
    LET idxs == { i \in 1..Len(log) :
                    log[i].ev = "w" /\ log[i].reg = "CR0" /\ is_set(log[i].val, CR0_SMMUEN) }
    IN IF idxs = {} THEN 0 ELSE CHOOSE i \in idxs : \A j \in idxs : i <= j

IsWrite(e, reg) == e.ev = "w" /\ e.reg = reg

\* The least element of a set of indices (0 when it is empty).
Least(idxs) == IF idxs = {} THEN 0 ELSE CHOOSE i \in idxs : \A j \in idxs : i <= j

\* The index of the first write of a register, and of the first flush.
FirstWriteOf(reg) == Least({ i \in 1..Len(log) : IsWrite(log[i], reg) })
FirstFlush == Least({ i \in 1..Len(log) : log[i].ev = "flush" })

\* C28: in init(), before CR0.SMMUEN is first written to 1 there are, in this order:
\* a bypass write of every STE, the flush of the whole STE region, the write of
\* STRTAB_BASE_CFG (FMT = Linear, LOG2SIZE = SID_BITS_SET), of STRTAB_BASE (RA = 1,
\* ADDR = table base >> 6), of CR1 and of CR2.
C28_EnableAfterTableProgrammed ==
    FirstSmmuEnable # 0 =>
        LET f == FirstFlush
            c == FirstWriteOf("STRTAB_BASE_CFG")
            b == FirstWriteOf("STRTAB_BASE")
            r1 == FirstWriteOf("CR1")
            r2 == FirstWriteOf("CR2")
        IN /\ 0 < f /\ f < c /\ c < b /\ b < r1 /\ r1 < r2 /\ r2 < FirstSmmuEnable
           /\ log[f] = Flush(stream_table.base, stream_table.entry_count * STRTAB_STE_SIZE)
           /\ log[c].val = hal.SID_BITS_SET
           /\ 62 \in log[b].val
           /\ Field(log[b].val, 55, 6) = Field(Bits(stream_table.base), 55, 6)
           /\ \A s \in 0..(stream_table.entry_count - 1) :
                 \E i \in 1..(f - 1) : log[i] = SteWrite(s, << Bits(9), {44}, {}, {}, {}, {}, {}, {} >>)
           /\ \A i \in 1..(FirstSmmuEnable - 1) :
                 log[i].ev = "ste" => (i < f /\ log[i].val[1] = Bits(9))

\* C28 witness: init() has just written CR0 with SMMUEN = 1 for a table of two STEs.
C28_Witness ==
    /\ pc = "poll_enable"
    /\ FirstSmmuEnable = Len(log)
    /\ stream_table.entry_count = 2
    /\ regs.STRTAB_BASE # {}

\* C29: in add_cmd an ordering barrier is issued between the write of the command
\* into its slot and the write of CMDQ_PROD that publishes it.
C29_BarrierBeforeProd ==
    \A i \in 1..Len(log) :
        (IsProdWrite(log[i]) /\ \E j \in 1..(i - 1) : IsInsert(log[j])) =>
            \E j \in 1..(i - 1) :
                /\ IsInsert(log[j])
                /\ \E b \in (j + 1)..(i - 1) : log[b].ev = "barrier"

\* C31: LinearStreamTable::init(sid_bits) requests at least one page and at least
\* 2^sid_bits * 64 bytes, so every STE its seeding loop wrote lies inside the region
\* the platform handed out (from the table base up to the allocator's next free page).
C31_RequestHoldsTable ==
    pc = "st_loop" =>
        /\ strtab_num_pages(hal.SID_BITS_SET) >= 1
        /\ strtab_num_pages(hal.SID_BITS_SET) * PAGE_SIZE_4K
               >= Pow2(hal.SID_BITS_SET) * STRTAB_STE_SIZE
        /\ \A s \in DOMAIN strtab_mem :
              stream_table.base + (s + 1) * STRTAB_STE_SIZE <= free_page

\* C32: when Queue::init(Q) returns, prod_value() = cons_value() = 0 and the queue is
\* empty and not full, whatever the producer and consumer were before the call.
C32_InitResetsQueue ==
    pc = "queue_inited" =>
        /\ prod_value(cmd_queue) = 0
        /\ cons_value(cmd_queue) = 0
        /\ empty(cmd_queue)
        /\ ~full(cmd_queue)

\* C33: for every 32-bit sid, cmd_cfgi_ste(sid) has opcode 0x03 in bits [7:0] of word
\* 0, sid in bits [63:32], bits [31:8] zero, and word 1 = 1 (Leaf); no other sid gives
\* the same command.
C33_CfgiSteEncoding ==
    log # << >> =>
        LET cmd == cmdq_mem[log[1].idx]
            stream_id == log[1].stream_id
        IN /\ Field(cmd[1], 7, 0) = Bits(3)
           /\ Field(cmd[1], 63, 32) = stream_id
           /\ Field(cmd[1], 31, 8) = {}
           /\ cmd[2] = {0}
           /\ \A other \in CfgiSids : cmd_cfgi_ste(other) = cmd => other = stream_id

\* C33 witness: the command built for sid 0xFFFFFFFF, next to the one for sid 2^31.
C33_Witness ==
    /\ log # << >>
    /\ log[1].stream_id = 0..31
    /\ cmdq_mem[log[1].idx][1] = {0, 1} \cup 32..63
    /\ cmdq_mem[1 - log[1].idx][1] = {0, 1, 63}

\* C34: whatever sid add_device is given, the STE it writes is slot sid of the table
\* region [base, base + entry_count * 64): no STE is written at or past slot
\* entry_count, and the table keeps its entry_count slots.
C34_WritesInsideTable ==
    stream_table # StreamTableUninit =>
        /\ DOMAIN strtab_mem = 0..(stream_table.entry_count - 1)
        /\ \A i \in 1..Len(log) :
              log[i].ev = "ste" => log[i].sid < stream_table.entry_count

\* C35: at entry to every add_cmd call the software queue view is empty, so the
\* wait-while-full loop is never entered, and the Command Queue never holds more than
\* one command the hardware has not consumed.
C35_EmptyAtAddCmdEntry ==
    /\ pc = "ac_full" => (empty(cmd_queue) /\ ~full(cmd_queue))
    /\ Cardinality(pending) <= 1

\* C35 witness: add_cmd is entered for the third time on a queue of one slot, whose
\* producer has wrapped.
C35_Witness ==
    /\ pc = "ac_full"
    /\ k = 2
    /\ cmd_queue.queue_size = 1
    /\ cmd_queue.prod = cmd_queue.cons
    /\ pending = {}

\* init() is in progress: the driver is in init()'s own code or in an add_cmd called
\* from stream_table_init.
InInit ==
    /\ pc \notin {"ready", "panic", "dev_prefetch", "dev_ret"}
    /\ stack # << >> => stack[1].ret = "st_next"

\* A command has been published: a cmd_insert followed by a write of CMDQ_PROD.
Published ==
    \E i \in 1..Len(log) : IsProdWrite(log[i]) /\ \E j \in 1..(i - 1) : IsInsert(log[j])

\* C36: during init() a command is published (cmd_insert, then the CMDQ_PROD write)
\* only once CR0ACK.CMDQEN has been seen set; the hardware never clears the
\* acknowledge, so it is then still set: after a CMDQEN acknowledge timeout no command
\* is published.
C36_PublishOnlyAfterCmdqenAck ==
    (InInit /\ Published) => is_set(regs.CR0ACK, CR0_CMDQEN)

\* C37: whenever find_event is about to sample EVENTQ_PROD and EVENTQ_CONS, the
\* driver has already written both; during init(), where the hardware raises no event
\* (SMMUEN is not yet set), both then read zero and find_event does not abort.
C37_EventRegsZeroedBeforeSample ==
    pc = "ac_event" =>
        /\ FirstWriteOf("EVENTQ_PROD") # 0
        /\ FirstWriteOf("EVENTQ_CONS") # 0
        /\ InInit => (regs.EVENTQ_PROD = 0 /\ regs.EVENTQ_CONS = 0)

\* C38: an add_device call made before init() has run writes no STE, writes no
\* Command Queue slot and does not write CMDQ_PROD.
C38_NoEffectBeforeReady ==
    stream_table = StreamTableUninit =>
        /\ strtab_mem = << >>
        /\ cmdq_mem = << >>
        /\ \A i \in 1..Len(log) :
              log[i].ev \notin {"ste", "insert"} /\ ~IsProdWrite(log[i])

\* C39: whatever vmid is (2^16 and above included), the bits of word 2 of a stage-2
\* STE above bit 15 are those of the STE built with vmid 0: S2VMID stays within
\* bits [15:0] of the word.
C39_VmidConfined ==
    (log # << >> /\ log[1].ev = "s2") =>
        Field(LastWritten[3], 63, 16) =
            Field(s2_translated_entry({}, log[1].s2pt_base)[3], 63, 16)

====
